---- MODULE Spec2Model ----
(***************************************************************************)
(* Retrieval layer of Archon: the hybrid search functions of               *)
(* migration/tune_hybrid_weighting.sql (src/unnamed/part_004) and the      *)
(* researcher memory functions of src/unnamed/part_002, as state machines  *)
(* over the tables they read and write.                                    *)
(*                                                                         *)
(* Numbers: similarities, ranks and importance are in hundredths           *)
(* (1.0 is 100), the fusion weights in tenths (0.5 is 5), so a fused score *)
(* is in thousandths.  Time is in days.                                    *)
(***************************************************************************)
EXTENDS Integers, Sequences, FiniteSets, TLC

\* ------------------------------------------------------------------ SQL
\* A nullable SQL value: Null, or Some(v).
Null == << >>
Some(v) == << v >>
IsNull(x) == x = Null
Val(x) == x[1]

Min2(a, b) == IF a <= b THEN a ELSE b

\* GREATEST and LEAST of a constant and a nullable value: PostgreSQL's
\* GREATEST/LEAST ignore NULL arguments, so GREATEST(0, NULL) is 0.
Greatest(c, x) == IF IsNull(x) THEN c ELSE IF Val(x) >= c THEN Val(x) ELSE c
Least(c, x) == IF IsNull(x) THEN c ELSE IF Val(x) <= c THEN Val(x) ELSE c

Range(s) == {s[i] : i \in DOMAIN s}

\* ORDER BY ... LIMIT n over the row set S, NotAfter holding the pairs
\* <<a, b>> of rows that the ORDER BY does not put a after b: every
\* sequence the executor may return.  Rows the ORDER BY does not tell
\* apart come in any order, and which of them survive the LIMIT is not
\* determined.
RECURSIVE TopN(_, _, _)
TopN(S, NotAfter, n) ==
    IF n <= 0 \/ S = {} THEN {<< >>}
    ELSE UNION {{<<x>> \o s : s \in TopN(S \ {x}, NotAfter, n - 1)} :
                  x \in {y \in S : \A z \in S : <<y, z>> \in NotAfter}}

\* --------------------------------------------------------------- bounds
MaxRows == 2
MaxLimit == 2

\* ------------------------------------------------- hybrid search: inputs
\* The embeddings of the model: vc points away from va (similarity -0.5).
Vectors == {"va", "vc"}

\* The pgvector operator <=> (cosine distance, 0..2), in hundredths, on the
\* vectors of the model; strict: NULL if either side is NULL.
Dist(a, b) == IF a = b THEN 0 ELSE 150
CosineDistance(x, y) ==
    IF IsNull(x) \/ IsNull(y) THEN Null ELSE Some(Dist(Val(x), Val(y)))

\* plainto_tsquery('english', query_text): NULL for a NULL text, no lexeme
\* for a text of stop words only, else the lexemes, all required.
PlaintoTsquery(query_text) ==
    IF IsNull(query_text) THEN Null
    ELSE IF Val(query_text) = "the" THEN Some({})
    ELSE Some({Val(query_text)})

\* A tsvector is a function from its lexemes to the rank each contributes.
\* tsv @@ q: NULL for a NULL query (the WHERE clause drops the row), false
\* for a query without lexemes, else every lexeme of q is in tsv.
TsMatch(tsv, q) ==
    /\ ~IsNull(q)
    /\ Val(q) # {}
    /\ Val(q) \subseteq DOMAIN tsv

RECURSIVE SumRank(_, _)
SumRank(tsv, terms) ==
    IF terms = {} THEN 0
    ELSE LET t == CHOOSE x \in terms : TRUE
         IN  (IF t \in DOMAIN tsv THEN tsv[t] ELSE 0) + SumRank(tsv, terms \ {t})

\* ts_rank_cd(tsv, q): unbounded above, 0 when nothing matches.
TsRankCd(tsv, q) == IF IsNull(q) THEN Null ELSE Some(SumRank(tsv, Val(q)))

NoLexemes == [t \in {} |-> 0]
TsVectors == {NoLexemes, [t \in {"x"} |-> 10], [t \in {"x"} |-> 150]}

\* A row of archon_crawled_pages / archon_code_examples: the columns the
\* search reads.  metadata is a set of keys, metadata @> filter is inclusion.
ChunkRows ==
    [source_id : {"s1", "s2"}, metadata : {{}, {"k"}},
     embedding : {Null} \cup {Some(v) : v \in Vectors},
     content_search_vector : TsVectors]

\* The rows the specification inserts: source s1 carries the metadata key.
InsertableRows ==
    {r \in ChunkRows : (r.source_id = "s1") <=> (r.metadata = {"k"})}

\* pages, examples: the tables archon_crawled_pages and
\* archon_code_examples, a row's id its position.  hs: the open call of a
\* hybrid search function, its two branch results and the rows it returns.
VARIABLES pages, examples, hs

searchVars == <<pages, examples, hs>>

\* now: the clock, in days.  variable_conflict: the server's
\* plpgsql.variable_conflict setting.  categories, memories: the tables
\* researcher_memory_categories (by name) and researcher_memories (by id).
\* mem: the last statement run against them, with what it returned.
VARIABLES now, variable_conflict, categories, memories, next_memory_id, mem

memVars == <<now, variable_conflict, categories, memories, next_memory_id, mem>>

\* kg_entities, kg_relationships, kg_entity_facts: the knowledge graph
\* tables, by id.  kg: the last statement run against them, with what it
\* returned.
VARIABLES kg_entities, kg_relationships, kg_entity_facts, kg

kgVars == <<kg_entities, kg_relationships, kg_entity_facts, kg>>

\* sessions: the open transactions of concurrent callers of the memory
\* functions.  recalled: for each memory, the recalls completed so far
\* whose UPDATE selected it.
VARIABLES sessions, recalled

txVars == <<sessions, recalled>>

\* archon_crawled_pages, archon_code_examples: the two chunk tables again,
\* with the columns their triggers and the backfill read and write.
\* triggers: the triggers created on them.  backfill: the DO block of
\* patch_tsvector_batched.sql, where it stands and its v_rows.
VARIABLES archon_crawled_pages, archon_code_examples, triggers, backfill

ixVars == <<archon_crawled_pages, archon_code_examples, triggers, backfill>>

vars == <<searchVars, memVars, kgVars, txVars, ixVars>>
nonSearchVars == <<memVars, kgVars, txVars, ixVars>>
nonMemVars == <<searchVars, kgVars, txVars, ixVars>>
nonKgVars == <<searchVars, memVars, txVars, ixVars>>
nonIxVars == <<searchVars, memVars, kgVars, txVars>>

vector_weight == 5
text_weight == 5

\* The WHERE clause common to both branches.
PassesFilter(row, filter, source_filter) ==
    /\ filter \subseteq row.metadata
    /\ IsNull(source_filter) \/ row.source_id = Val(source_filter)

\* vector_results: id and vector_sim of the rows with an embedding, nearest
\* first, at most max_vector_results of them.
VectorRow(tbl, i, query_embedding) ==
    LET d == CosineDistance(tbl[i].embedding, query_embedding)
    IN  [id |-> i, vector_sim |-> IF IsNull(d) THEN Null ELSE Some(100 - Val(d))]

\* ORDER BY cp.embedding <=> query_embedding: nearest first; under a NULL
\* query vector every distance is NULL and the order says nothing.
VectorOrder(a, b) ==
    IsNull(a.vector_sim) \/ IsNull(b.vector_sim)
        \/ Val(a.vector_sim) >= Val(b.vector_sim)

VectorResults(tbl, query_embedding, max_vector_results, filter, source_filter) ==
    LET rows == {VectorRow(tbl, i, query_embedding) : i \in
            {j \in DOMAIN tbl : /\ PassesFilter(tbl[j], filter, source_filter)
                                /\ ~IsNull(tbl[j].embedding)}}
    IN TopN(rows, {p \in rows \X rows : VectorOrder(p[1], p[2])}, max_vector_results)

\* text_results: id and text_sim of the rows matching the query, highest
\* rank first, at most max_text_results of them.
TextRow(tbl, i, query_text) ==
    [id |-> i,
     text_sim |-> TsRankCd(tbl[i].content_search_vector, PlaintoTsquery(query_text))]

\* ORDER BY text_sim DESC
TextOrder(a, b) == Val(a.text_sim) >= Val(b.text_sim)

TextResults(tbl, query_text, max_text_results, filter, source_filter) ==
    LET rows == {TextRow(tbl, i, query_text) : i \in
            {j \in DOMAIN tbl :
                /\ PassesFilter(tbl[j], filter, source_filter)
                /\ TsMatch(tbl[j].content_search_vector, PlaintoTsquery(query_text))}}
    IN TopN(rows, {p \in rows \X rows : TextOrder(p[1], p[2])}, max_text_results)

\* Two faulty variants of the fusion.
\* The text rank is not clamped to 1.0.
FusedSimilarityUnclamped(v, t) ==
      (IF ~IsNull(v) THEN vector_weight * Greatest(0, Val(v).vector_sim) ELSE 0)
    + (IF ~IsNull(t) THEN text_weight * Val(Val(t).text_sim) ELSE 0)

\* A row found by one signal keeps that signal's raw value, as in the
\* unweighted COALESCE(v.vector_sim, t.text_sim, 0) of the older function.
FusedSimilarityRawSingle(v, t) ==
    IF ~IsNull(v) /\ ~IsNull(t)
    THEN   vector_weight * Greatest(0, Val(v).vector_sim)
         + text_weight * Least(100, Val(t).text_sim)
    ELSE IF ~IsNull(v) THEN 10 * Greatest(0, Val(v).vector_sim)
    ELSE IF ~IsNull(t) THEN 10 * Least(100, Val(t).text_sim)
    ELSE 0

\* One row of combined_results: v and t are the joined rows, Null for the
\* side the FULL OUTER JOIN left empty.
FusedSimilarity(v, t) ==
      (IF ~IsNull(v) THEN vector_weight * Greatest(0, Val(v).vector_sim) ELSE 0)
    + (IF ~IsNull(t) THEN text_weight * Least(100, Val(t).text_sim) ELSE 0)

MatchType(v, t) ==
    IF ~IsNull(v) /\ ~IsNull(t) THEN "hybrid"
    ELSE IF ~IsNull(v) THEN "vector"
    ELSE "keyword"

Side(rows, i) ==
    IF \E r \in rows : r.id = i
    THEN Some(CHOOSE r \in rows : r.id = i)
    ELSE Null

CombinedResults(vector_results, text_results) ==
    {[id |-> i,
      similarity |-> FusedSimilarity(Side(vector_results, i), Side(text_results, i)),
      match_type |-> MatchType(Side(vector_results, i), Side(text_results, i))] :
        i \in {r.id : r \in vector_results} \cup {r.id : r \in text_results}}

\* The final ORDER BY similarity, ascending by mistake.
SimilarityOrderAscending(a, b) == a.similarity <= b.similarity

\* ORDER BY similarity DESC
SimilarityOrder(a, b) == a.similarity >= b.similarity

\* The function body: both branches limited to match_count, the join, the
\* final ORDER BY similarity DESC LIMIT match_count.
HybridSearch(fn, tbl, query_embedding, query_text, match_count, filter, source_filter) ==
    \E v \in VectorResults(tbl, query_embedding, match_count, filter, source_filter) :
    \E t \in TextResults(tbl, query_text, match_count, filter, source_filter) :
    LET rows == CombinedResults(Range(v), Range(t)) IN
    \E out \in TopN(rows, {p \in rows \X rows : SimilarityOrder(p[1], p[2])}, match_count) :
        hs' = [fn |-> fn, query_embedding |-> query_embedding,
               query_text |-> query_text, match_count |-> match_count,
               filter |-> filter, source_filter |-> source_filter,
               vector_results |-> Range(v), text_results |-> Range(t), result |-> out]

QueryEmbeddings == {Null, Some("va")}
QueryTexts == {Null, Some("the"), Some("x")}
\* filter and source_filter of a call: none, a metadata key, a source.
SearchFilters == {<<{}, Null>>, <<{"k"}, Null>>, <<{}, Some("s2")>>}

NoSearch ==
    [fn |-> "none", query_embedding |-> Null, query_text |-> Null, match_count |-> 0,
     filter |-> {}, source_filter |-> Null,
     vector_results |-> {}, text_results |-> {}, result |-> << >>]

\* The session is idle: the rows of the previous call have been fetched.
Idle == hs = NoSearch

HybridSearchCrawledPages ==
    /\ Idle
    /\ \E qe \in QueryEmbeddings, qt \in QueryTexts, n \in 0..MaxLimit,
          f \in SearchFilters :
          HybridSearch("hybrid_search_archon_crawled_pages", pages, qe, qt, n, f[1], f[2])
    /\ UNCHANGED <<pages, examples, nonSearchVars>>

HybridSearchCodeExamples ==
    /\ Idle
    /\ \E qe \in QueryEmbeddings, qt \in QueryTexts, n \in 0..MaxLimit,
          f \in SearchFilters :
          HybridSearch("hybrid_search_archon_code_examples", examples, qe, qt, n, f[1], f[2])
    /\ UNCHANGED <<pages, examples, nonSearchVars>>

\* The caller fetches the returned rows; the next statement can start.
FetchSearchRows ==
    /\ ~Idle
    /\ hs' = NoSearch
    /\ UNCHANGED <<pages, examples, nonSearchVars>>

\* The two functions read one table each and share nothing, so a run fills
\* one of the two tables, up to MaxRows rows.
InsertCrawledPage ==
    /\ Idle
    /\ Len(examples) = 0
    /\ Len(pages) < MaxRows
    /\ \E r \in InsertableRows : pages' = Append(pages, r)
    /\ UNCHANGED <<examples, hs, nonSearchVars>>

InsertCodeExample ==
    /\ Idle
    /\ Len(pages) = 0
    /\ Len(examples) < MaxRows
    /\ \E r \in InsertableRows : examples' = Append(examples, r)
    /\ UNCHANGED <<pages, hs, nonSearchVars>>

\* ------------------------------------------------ hybrid search: claims
\* What the claims read off a finished call.
Searched == hs.fn # "none"
SearchedTable ==
    IF hs.fn = "hybrid_search_archon_crawled_pages" THEN pages ELSE examples
VectorIds == {r.id : r \in hs.vector_results}
TextIds == {r.id : r \in hs.text_results}
NoUsableText ==
    IsNull(hs.query_text) \/ Val(PlaintoTsquery(hs.query_text)) = {}

\* max(0, 1 - cosine distance) of row i to the query vector, in hundredths
\* (the query vector is not NULL).
ClampedSim(i) ==
    LET sim == 100 - Dist(Val(SearchedTable[i].embedding), Val(hs.query_embedding))
    IN  IF sim < 0 THEN 0 ELSE sim

\* min(lexical rank, 1.0) of row i for the query text, in hundredths (the
\* row matches the query).
ClampedRank(i) ==
    LET rank == SumRank(SearchedTable[i].content_search_vector,
                        Val(PlaintoTsquery(hs.query_text)))
    IN  IF rank > 100 THEN 100 ELSE rank

\* C1: a returned row that is in both the vector top-N set and the lexical
\* top-N set is tagged hybrid and, the query vector given, its score is
\* vector_weight * max(0, similarity) + lexical_weight * min(rank, 1.0).
C1_FusionCorrectness ==
    Searched =>
        \A k \in DOMAIN hs.result :
            LET r == hs.result[k] IN
            (r.id \in VectorIds /\ r.id \in TextIds) =>
                /\ r.match_type = "hybrid"
                /\ ~IsNull(hs.query_embedding) =>
                       r.similarity = vector_weight * ClampedSim(r.id)
                                      + text_weight * ClampedRank(r.id)

\* A call returned a row found by both signals, neither of them clamped:
\* similarity 1.0 and rank 0.1 give 0.5 * 1.0 + 0.5 * 0.1 = 0.55.
C1_Witness ==
    /\ Searched
    /\ ~IsNull(hs.query_embedding)
    /\ \E k \in DOMAIN hs.result :
          /\ hs.result[k].id \in VectorIds \cap TextIds
          /\ hs.result[k].similarity = 550

\* C2 as stated: with a query vector and no query text every returned row
\* is tagged vector and its score is the raw clamped similarity.
C2_RawSimilarity ==
    (Searched /\ ~IsNull(hs.query_embedding) /\ IsNull(hs.query_text)) =>
        \A k \in DOMAIN hs.result :
            /\ hs.result[k].match_type = "vector"
            /\ hs.result[k].similarity = 10 * ClampedSim(hs.result[k].id)

\* C2 as amended: with a query vector and no usable query text every
\* returned row is tagged vector and its score is vector_weight times the
\* clamped similarity.
C2_WeightedSimilarity ==
    (Searched /\ ~IsNull(hs.query_embedding) /\ NoUsableText) =>
        \A k \in DOMAIN hs.result :
            /\ hs.result[k].match_type = "vector"
            /\ hs.result[k].similarity = vector_weight * ClampedSim(hs.result[k].id)

\* A vector-only call returned a row of similarity 1.0 with score 0.5.
C2_Witness ==
    /\ Searched
    /\ ~IsNull(hs.query_embedding)
    /\ IsNull(hs.query_text)
    /\ \E k \in DOMAIN hs.result :
          /\ ClampedSim(hs.result[k].id) = 100
          /\ hs.result[k].similarity = 500

\* C3 as stated: with a query text and a NULL query vector every returned
\* row matches the lexical predicate and is tagged keyword.
C3_KeywordOnly ==
    (Searched /\ IsNull(hs.query_embedding) /\ ~IsNull(hs.query_text)) =>
        \A k \in DOMAIN hs.result :
            /\ hs.result[k].match_type = "keyword"
            /\ TsMatch(SearchedTable[hs.result[k].id].content_search_vector,
                       PlaintoTsquery(hs.query_text))

\* The fused score of merged row i, from the table and the two branch sets.
MergedScore(i) ==
      (IF i \in VectorIds /\ ~IsNull(hs.query_embedding)
       THEN vector_weight * ClampedSim(i) ELSE 0)
    + (IF i \in TextIds THEN text_weight * ClampedRank(i) ELSE 0)
ReturnedIds == {hs.result[k].id : k \in DOMAIN hs.result}

\* C4: a call with limit N returns at most N rows, each a different row of
\* the merge of at most 2N, and no row left out has a higher fused score
\* than a row returned.
C4_LimitRespected ==
    Searched =>
        /\ Len(hs.result) = Min2(hs.match_count, Cardinality(VectorIds \cup TextIds))
        /\ Cardinality(ReturnedIds) = Len(hs.result)
        /\ ReturnedIds \subseteq VectorIds \cup TextIds
        /\ Cardinality(VectorIds \cup TextIds) <= 2 * hs.match_count
        /\ \A i \in ReturnedIds : \A j \in (VectorIds \cup TextIds) \ ReturnedIds :
              MergedScore(i) >= MergedScore(j)

\* 2N rows entered the merge, N of them were returned and the ones left
\* out score strictly lower.
C4_Witness ==
    /\ Searched
    /\ hs.match_count >= 1
    /\ Cardinality(VectorIds \cup TextIds) = 2 * hs.match_count
    /\ Len(hs.result) = hs.match_count
    /\ \E i \in ReturnedIds : \E j \in (VectorIds \cup TextIds) \ ReturnedIds :
          MergedScore(i) > MergedScore(j)

\* ============================================================ memories
\* Bounds of the two memory specifications.
MaxMemories == 2
MaxTouches == 2
MaxNow == 60
MaxRescoreMemories == 1
MaxAccess == 7
MaxRescoreNow == 91

\* The seed rows of researcher_memory_categories.
SeedCategories ==
    [n \in {"user_preferences", "research_context", "entity_interest",
            "source_preferences", "analysis_patterns", "domain_expertise",
            "research_methodology", "fact_corrections"} |->
        [priority |->
            CASE n = "user_preferences" -> 10
              [] n = "research_context" -> 8
              [] n = "entity_interest" -> 7
              [] n = "source_preferences" -> 6
              [] n = "analysis_patterns" -> 5
              [] n = "domain_expertise" -> 9
              [] n = "research_methodology" -> 7
              [] OTHER -> 10,
         retention_days |->
            CASE n \in {"research_context", "entity_interest", "analysis_patterns"}
                    -> Some(180)
              [] n = "fact_corrections" -> Some(730)
              [] OTHER -> Some(365)]]

\* The shape of mem; each statement fills the fields it has.
NoCall ==
    [op |-> "none", repeat |-> FALSE, error |-> "none",
     user_id_param |-> "", category_name |-> "", retention_days_override |-> Null,
     mode |-> "", query_text |-> Null, query_embedding |-> Null,
     max_memories |-> 0, min_importance |-> 0,
     memory_uuid |-> 0, rows |-> << >>, deleted_count |-> 0, changed |-> {}]

Called(op) == [NoCall EXCEPT !.op = op, !.repeat = (mem.op = op)]

\* An INSERT into researcher_memory_categories; name is UNIQUE, priority
\* defaults to 1, retention_days may be NULL.
InsertCategory(name, retention_days) ==
    /\ name \notin DOMAIN categories
    /\ categories' = [n \in DOMAIN categories \cup {name} |->
                        IF n = name
                        THEN [priority |-> 1, retention_days |-> retention_days]
                        ELSE categories[n]]
    /\ mem' = Called("insert_category")
    /\ UNCHANGED <<now, variable_conflict, memories, next_memory_id, nonMemVars>>

\* ------------------------------------------------ store_research_memory
\* SELECT id, retention_days INTO category_uuid, default_retention ...
\* WHERE name = category_name: both NULL when no row has the name.  The
\* category's name stands for its id.
CategoryLookup(category_name) ==
    IF category_name \in DOMAIN categories
    THEN [category_uuid |-> Some(category_name),
          default_retention |-> categories[category_name].retention_days]
    ELSE [category_uuid |-> Null, default_retention |-> Null]

\* The check is left out.
CategoryMissingNever(category_uuid) == FALSE

\* IF category_uuid IS NULL THEN RAISE EXCEPTION
CategoryMissing(category_uuid) == IsNull(category_uuid)

\* The category's default wins over the caller's override.
ExpiryDateDefaultFirst(retention_days_override, default_retention) ==
    IF ~IsNull(default_retention) THEN Some(now + Val(default_retention))
    ELSE IF ~IsNull(retention_days_override) THEN Some(now + Val(retention_days_override))
    ELSE Null

\* expiry_date: NOW() + the override, else NOW() + the category's
\* retention, else NULL.
ExpiryDate(retention_days_override, default_retention) ==
    IF ~IsNull(retention_days_override) THEN Some(now + Val(retention_days_override))
    ELSE IF ~IsNull(default_retention) THEN Some(now + Val(default_retention))
    ELSE Null

\* context and confidence_score are stored as given and read by nothing
\* but the row returned; they are left out.
StoreResearchMemory(user_id_param, category_name, memory_text_param, importance_param, embedding_param, retention_days_override) ==
    LET c == CategoryLookup(category_name)
        call == [Called("store") EXCEPT !.user_id_param = user_id_param,
                    !.category_name = category_name,
                    !.retention_days_override = retention_days_override]
    IN
    /\ IF CategoryMissing(c.category_uuid)
       THEN /\ mem' = [call EXCEPT !.error = "category_not_found"]
            /\ UNCHANGED <<memories, next_memory_id>>
       ELSE /\ memories' =
                 [i \in DOMAIN memories \cup {next_memory_id} |->
                    IF i = next_memory_id
                    THEN [user_id |-> user_id_param,
                          category_id |-> c.category_uuid,
                          memory_text |-> memory_text_param,
                          importance_score |-> importance_param,
                          access_count |-> 0,
                          last_accessed |-> Null,
                          expires_at |-> ExpiryDate(retention_days_override,
                                                    c.default_retention),
                          embedding |-> embedding_param,
                          created_at |-> now]
                    ELSE memories[i]]
            /\ next_memory_id' = next_memory_id + 1
            /\ mem' = [call EXCEPT !.memory_uuid = next_memory_id]
    /\ UNCHANGED <<now, variable_conflict, categories, nonMemVars>>

\* --------------------------------------- get_research_memories_for_user
\* The test with >= for >.
UnexpiredOrExpiring(m) == IsNull(m.expires_at) \/ Val(m.expires_at) >= now

\* expires_at IS NULL OR expires_at > NOW()
Unexpired(m) == IsNull(m.expires_at) \/ Val(m.expires_at) > now

\* The WHERE clause of the UPDATE without its test of importance_score.
TouchPredicateNoFloor(m, user_id_param, min_importance) ==
    /\ m.user_id = user_id_param
    /\ Unexpired(m)
    /\ variable_conflict = "use_column"

\* The WHERE clause of the access-tracking UPDATE (lines 97-99).  Its
\* importance_score is not qualified, and importance_score is also an
\* output column of the function (line 86), a PL/pgSQL variable that is
\* NULL until a row is returned.  With variable_conflict = use_column it
\* is the column; with use_variable it is the variable, NULL >=
\* min_importance is NULL, and no row is updated; with error, the
\* default, the statement is rejected (see AmbiguousReference).
TouchPredicate(m, user_id_param, min_importance) ==
    /\ m.user_id = user_id_param
    /\ Unexpired(m)
    /\ IF variable_conflict = "use_column"
       THEN m.importance_score >= min_importance
       ELSE FALSE

\* plpgsql.variable_conflict = error: "column reference importance_score
\* is ambiguous"; the function stops there.
AmbiguousReference == variable_conflict = "error"

\* UPDATE researcher_memories SET access_count = access_count + 1,
\* last_accessed = NOW() WHERE ...
Touched(user_id_param, min_importance) ==
    [i \in DOMAIN memories |->
        IF TouchPredicate(memories[i], user_id_param, min_importance)
        THEN [memories[i] EXCEPT !.access_count = @ + 1, !.last_accessed = Some(now)]
        ELSE memories[i]]

\* The WHERE clause without its test of expires_at.
RecallableExpired(m, user_id_param, min_importance) ==
    /\ m.user_id = user_id_param
    /\ m.importance_score >= min_importance

\* The WHERE clause common to the three SELECTs; its columns are qualified.
Recallable(m, user_id_param, min_importance) ==
    /\ m.user_id = user_id_param
    /\ Unexpired(m)
    /\ m.importance_score >= min_importance

similarity_threshold == 50

\* 1 - (rm.embedding <=> query_embedding), for a row with an embedding.
MemorySimilarity(m, query_embedding) ==
    100 - Val(CosineDistance(m.embedding, query_embedding))

\* The rows a SELECT joins to their category: a memory whose category_id
\* is NULL joins to nothing.
Joined(tbl) == {i \in DOMAIN tbl : ~IsNull(tbl[i].category_id)}

RecallRow(tbl, i, relevance) ==
    [memory_id |-> i,
     category_name |-> Val(tbl[i].category_id),
     priority |-> categories[Val(tbl[i].category_id)].priority,
     importance_score |-> tbl[i].importance_score,
     relevance_score |-> relevance,
     access_count |-> tbl[i].access_count,
     created_at |-> tbl[i].created_at]

\* a is not after b under ORDER BY k1 DESC, k2 DESC, ...: ka and kb are the
\* two rows' keys, in that order.
RECURSIVE LexNotAfter(_, _)
LexNotAfter(ka, kb) ==
    IF ka = << >> THEN TRUE
    ELSE IF Head(ka) # Head(kb) THEN Head(ka) > Head(kb)
    ELSE LexNotAfter(Tail(ka), Tail(kb))

\* ORDER BY priority DESC, similarity DESC, importance_score DESC,
\* access_count DESC
VectorModeOrder(a, b) ==
    LexNotAfter(<<a.priority, a.relevance_score, a.importance_score, a.access_count>>,
                <<b.priority, b.relevance_score, b.importance_score, b.access_count>>)

VectorModeRows(tbl, user_id_param, query_embedding, max_memories, min_importance) ==
    LET rows == {RecallRow(tbl, i, MemorySimilarity(tbl[i], query_embedding)) : i \in
            {j \in Joined(tbl) :
                /\ Recallable(tbl[j], user_id_param, min_importance)
                /\ ~IsNull(tbl[j].embedding)
                /\ MemorySimilarity(tbl[j], query_embedding) > similarity_threshold}}
    IN TopN(rows, {p \in rows \X rows : VectorModeOrder(p[1], p[2])}, max_memories)

\* The ORDER BY with its last two keys exchanged.
DefaultModeOrderCreatedFirst(a, b) ==
    LexNotAfter(<<a.priority, a.importance_score, a.created_at, a.access_count>>,
                <<b.priority, b.importance_score, b.created_at, b.access_count>>)

\* ORDER BY priority DESC, importance_score DESC, access_count DESC,
\* created_at DESC.
DefaultModeOrder(a, b) ==
    LexNotAfter(<<a.priority, a.importance_score, a.access_count, a.created_at>>,
                <<b.priority, b.importance_score, b.access_count, b.created_at>>)

DefaultModeRows(tbl, user_id_param, max_memories, min_importance) ==
    LET rows == {RecallRow(tbl, i, tbl[i].importance_score) : i \in
            {j \in Joined(tbl) : Recallable(tbl[j], user_id_param, min_importance)}}
    IN TopN(rows, {p \in rows \X rows : DefaultModeOrder(p[1], p[2])}, max_memories)

\* The branches with the text tested first.
RecallModeTextFirst(query_text, query_embedding) ==
    IF ~IsNull(query_text) THEN "text"
    ELSE IF ~IsNull(query_embedding) THEN "vector"
    ELSE "default"

\* The branch taken: the vector if there is one, else the text if there is
\* one, else neither.
RecallMode(query_text, query_embedding) ==
    IF ~IsNull(query_embedding) THEN "vector"
    ELSE IF ~IsNull(query_text) THEN "text"
    ELSE "default"

\* The text branch returns CASE WHEN ... THEN 1.0 ELSE similarity(...) END
\* as relevance: similarity() of pg_trgm is real, and so is the CASE, while
\* the function declares relevance_score FLOAT (double precision).  RETURN
\* QUERY does not convert: error 42804, "structure of query does not match
\* function result type", whatever the rows.
ResultTypeMismatch(mode) == mode = "text"

\* The function is one statement of its caller: when it raises, its UPDATE
\* is undone with it.
GetResearchMemoriesForUser(user_id_param, query_text, query_embedding, max_memories, min_importance) ==
    LET mode == RecallMode(query_text, query_embedding)
        call == [Called("recall") EXCEPT !.user_id_param = user_id_param,
                    !.mode = mode, !.query_text = query_text,
                    !.query_embedding = query_embedding,
                    !.max_memories = max_memories,
                    !.min_importance = min_importance]
        touched == Touched(user_id_param, min_importance)
    IN
    /\ IF AmbiguousReference
       THEN /\ mem' = [call EXCEPT !.error = "ambiguous_column"]
            /\ UNCHANGED memories
       ELSE IF ResultTypeMismatch(mode)
       THEN /\ mem' = [call EXCEPT !.error = "datatype_mismatch"]
            /\ UNCHANGED memories
       ELSE /\ memories' = touched
            /\ \E rows \in (IF mode = "vector"
                            THEN VectorModeRows(touched, user_id_param, query_embedding,
                                                max_memories, min_importance)
                            ELSE DefaultModeRows(touched, user_id_param,
                                                 max_memories, min_importance)) :
                 mem' = [call EXCEPT !.rows = rows]
    /\ UNCHANGED <<now, variable_conflict, categories, next_memory_id, nonMemVars>>

\* ---------------------------------------------- update_memory_importance
\* The reinforcement without its cap.
ReinforcedUncapped(m) ==
    IF /\ m.access_count > 5
       /\ ~IsNull(m.last_accessed)
       /\ Val(m.last_accessed) > now - 30
    THEN [m EXCEPT !.importance_score = @ + m.access_count]
    ELSE m

\* First UPDATE: importance_score = LEAST(1.0, importance_score +
\* access_count * 0.01) WHERE access_count > 5 AND last_accessed > NOW() -
\* 30 days.  A NULL last_accessed satisfies no comparison.
Reinforced(m) ==
    IF /\ m.access_count > 5
       /\ ~IsNull(m.last_accessed)
       /\ Val(m.last_accessed) > now - 30
    THEN [m EXCEPT !.importance_score = Least(100, Some(@ + m.access_count))]
    ELSE m

\* The decay without its floor.
DecayedUnfloored(m) ==
    IF /\ ~IsNull(m.last_accessed)
       /\ Val(m.last_accessed) < now - 90
       /\ m.access_count < 3
    THEN [m EXCEPT !.importance_score = @ - 10]
    ELSE m

\* Second UPDATE: importance_score = GREATEST(0.1, importance_score - 0.1)
\* WHERE last_accessed < NOW() - 90 days AND access_count < 3.
Decayed(m) ==
    IF /\ ~IsNull(m.last_accessed)
       /\ Val(m.last_accessed) < now - 90
       /\ m.access_count < 3
    THEN [m EXCEPT !.importance_score = Greatest(10, Some(@ - 10))]
    ELSE m

UpdateMemoryImportance ==
    /\ memories' = [i \in DOMAIN memories |-> Decayed(Reinforced(memories[i]))]
    /\ mem' = [Called("rescore") EXCEPT !.changed =
                 {i \in DOMAIN memories :
                    Decayed(Reinforced(memories[i])).importance_score
                        # memories[i].importance_score}]
    /\ UNCHANGED <<now, variable_conflict, categories, next_memory_id, nonMemVars>>

\* ---------------------------------------------- cleanup_expired_memories
\* The comparison lets the row expiring now go too.
ExpiredOrExpiring(m) == ~IsNull(m.expires_at) /\ Val(m.expires_at) <= now

\* expires_at IS NOT NULL AND expires_at < NOW()
Expired(m) == ~IsNull(m.expires_at) /\ Val(m.expires_at) < now

CleanupExpiredMemories ==
    LET kept == {i \in DOMAIN memories : ~Expired(memories[i])} IN
    /\ memories' = [i \in kept |-> memories[i]]
    /\ mem' = [Called("cleanup") EXCEPT !.deleted_count =
                 Cardinality(DOMAIN memories) - Cardinality(kept)]
    /\ UNCHANGED <<now, variable_conflict, categories, next_memory_id, nonMemVars>>

\* Time passes.
Tick(days) ==
    /\ now' = now + days
    /\ mem' = Called("tick")
    /\ UNCHANGED <<variable_conflict, categories, memories, next_memory_id, nonMemVars>>

\* ====================================================== knowledge graph
\* Bounds of the knowledge graph specifications.
MaxEntities == 3
MaxRelationships == 3
MaxFacts == 2
MaxResults == 2

\* The shape of kg; each statement fills the fields it has.  limit is the
\* result-count limit the statement was given, NULL for a function that
\* takes none.
KgNoCall ==
    [op |-> "none", error |-> "none", entity_id_param |-> Null,
     max_depth |-> 0, limit |-> Null, query_name |-> Null,
     query_embedding |-> Null, similarity_threshold |-> 0,
     start_date |-> Null, end_date |-> Null,
     source_entity_id |-> Null, target_entity_id |-> Null, rows |-> << >>]

KgIdle ==
    /\ kg_entities = << >>
    /\ kg_relationships = << >>
    /\ kg_entity_facts = << >>
    /\ kg = KgNoCall

\* No caller of the memory functions has a transaction open.
TxIdle ==
    /\ sessions = << >>
    /\ recalled = << >>

\* No chunk, no trigger, and the backfill not run.
NoBackfill == [pc |-> "idle", v_rows |-> 0, updated |-> {}, triggers |-> {},
               present |-> 0]

IxIdle ==
    /\ archon_crawled_pages = << >>
    /\ archon_code_examples = << >>
    /\ triggers = {}
    /\ backfill = NoBackfill

\* ------------------------------------------------------ specifications
\* The memory tables as the migration leaves them, under the default
\* setting.
MemIdle ==
    /\ now = 0
    /\ categories = SeedCategories
    /\ memories = << >>
    /\ next_memory_id = 1
    /\ mem = NoCall

SearchIdle ==
    /\ pages = << >>
    /\ examples = << >>
    /\ hs = NoSearch

\* Hybrid search over tables of up to MaxRows rows.
SearchInit ==
    /\ SearchIdle
    /\ MemIdle
    /\ variable_conflict = "error"
    /\ KgIdle
    /\ TxIdle
    /\ IxIdle

SearchNext ==
    \/ InsertCrawledPage
    \/ InsertCodeExample
    \/ HybridSearchCrawledPages
    \/ HybridSearchCodeExamples
    \/ FetchSearchRows

SpecSearch == SearchInit /\ [][SearchNext]_vars


\* The memory functions under each setting of plpgsql.variable_conflict.
MemInit ==
    /\ MemIdle
    /\ variable_conflict \in {"error", "use_variable", "use_column"}
    /\ SearchIdle
    /\ KgIdle
    /\ TxIdle
    /\ IxIdle

Users == {"u1", "u2"}

\* The calls of store_research_memory the memory specification makes:
\* user, category, importance, embedding, retention override.
StoreCalls ==
    {<<"u1", "fact_corrections", 50, Some("va"), Null>>,
     <<"u1", "fact_corrections", 50, Null, Some(30)>>,
     <<"u1", "custom", 20, Null, Null>>,
     <<"u2", "research_context", 50, Some("va"), Some(30)>>,
     <<"u1", "nonexistent", 50, Null, Null>>}

\* query_text, query_embedding, max_memories of its recalls.
RecallCalls ==
    {<<Null, Null, 1>>, <<Null, Null, 10>>, <<Some("alpha"), Null, 10>>,
     <<Null, Some("va"), 10>>, <<Some("alpha"), Some("va"), 1>>}

MemStore ==
    \E c \in StoreCalls :
        /\ next_memory_id <= MaxMemories
        /\ StoreResearchMemory(c[1], c[2], "alpha", c[3], c[4], c[5])

MemInsertCategory == InsertCategory("custom", Null)

MemRecall ==
    \E u \in Users, c \in RecallCalls :
        /\ \A i \in DOMAIN memories : memories[i].access_count < MaxTouches
        /\ GetResearchMemoriesForUser(u, c[1], c[2], c[3], 30)

MemTick == now + 30 <= MaxNow /\ Tick(30)

MemNext ==
    \/ MemStore
    \/ MemInsertCategory
    \/ MemRecall
    \/ CleanupExpiredMemories
    \/ UpdateMemoryImportance
    \/ MemTick

SpecMem == MemInit /\ [][MemNext]_vars

\* Re-scoring: one user's memories, recalled often enough to be reinforced
\* and left alone long enough to decay.
RescoreStore ==
    \E importance \in {5, 50, 95} :
        /\ next_memory_id <= MaxRescoreMemories
        /\ StoreResearchMemory("u1", "fact_corrections", "alpha", importance, Null, Null)

RescoreRecall ==
    /\ \A i \in DOMAIN memories : memories[i].access_count < MaxAccess
    /\ GetResearchMemoriesForUser("u1", Null, Null, 10, 30)

RescoreTick == \E days \in {30, 91} : now + days <= MaxRescoreNow /\ Tick(days)

RescoreNext ==
    \/ RescoreStore
    \/ RescoreRecall
    \/ UpdateMemoryImportance
    \/ RescoreTick

SpecRescore == MemInit /\ [][RescoreNext]_vars

\* Decay of memories stored below the default floor: their caller recalls
\* with min_importance = 0.
DecayRecall ==
    /\ \A i \in DOMAIN memories : memories[i].access_count < MaxAccess
    /\ GetResearchMemoriesForUser("u1", Null, Null, 10, 0)

DecayNext ==
    \/ RescoreStore
    \/ DecayRecall
    \/ UpdateMemoryImportance
    \/ RescoreTick

SpecDecay == MemInit /\ [][DecayNext]_vars

\* ------------------------------------------- knowledge graph: tables
\* The names of the seed rows of kg_entity_types and kg_relationship_types
\* the specifications use; a type's name stands for its id.
KgEntityTypes == {"PERSON", "ORGANIZATION", "LOCATION"}
KgRelationshipTypes == {"WORKS_FOR", "LOCATED_IN", "RELATED_TO"}

\* INSERT INTO kg_entities: name is NOT NULL, entity_type_id is NULL or
\* the id of a type, embedding may be NULL.  The id is the row's position.
InsertEntity(name, entity_type_id, embedding) ==
    /\ IF IsNull(entity_type_id) THEN TRUE ELSE Val(entity_type_id) \in KgEntityTypes
    /\ kg_entities' = Append(kg_entities,
          [name |-> name, entity_type_id |-> entity_type_id, embedding |-> embedding])
    /\ kg' = [KgNoCall EXCEPT !.op = "insert_entity"]
    /\ UNCHANGED <<kg_relationships, kg_entity_facts, nonKgVars>>

\* The table without the constraint.
NoSelfRelationshipAlways(r) == TRUE

\* CONSTRAINT no_self_relationship CHECK (source_entity_id !=
\* target_entity_id): a row fails the check when the comparison is false;
\* with a NULL on either side it is NULL and the row passes.
NoSelfRelationship(r) ==
    IsNull(r.source_entity_id) \/ IsNull(r.target_entity_id)
        \/ Val(r.source_entity_id) # Val(r.target_entity_id)

\* source_entity_id and target_entity_id REFERENCES kg_entities(id),
\* relationship_type_id REFERENCES kg_relationship_types(id).
RelationshipReferencesHold(r) ==
    /\ IsNull(r.source_entity_id) \/ Val(r.source_entity_id) \in DOMAIN kg_entities
    /\ IsNull(r.target_entity_id) \/ Val(r.target_entity_id) \in DOMAIN kg_entities
    /\ IsNull(r.relationship_type_id) \/ Val(r.relationship_type_id) \in KgRelationshipTypes

\* The error a row of kg_relationships is rejected with, if any.
RelationshipError(r) ==
    IF ~NoSelfRelationship(r) THEN "check_violation"
    ELSE IF ~RelationshipReferencesHold(r) THEN "foreign_key_violation"
    ELSE "none"

\* INSERT INTO kg_relationships
InsertRelationship(r) ==
    /\ kg' = [KgNoCall EXCEPT !.op = "insert_relationship",
                 !.error = RelationshipError(r),
                 !.source_entity_id = r.source_entity_id,
                 !.target_entity_id = r.target_entity_id]
    /\ kg_relationships' =
          IF RelationshipError(r) = "none" THEN Append(kg_relationships, r)
          ELSE kg_relationships
    /\ UNCHANGED <<kg_entities, kg_entity_facts, nonKgVars>>

\* UPDATE kg_relationships SET source_entity_id = ..., target_entity_id =
\* ... WHERE id = i
UpdateRelationship(i, source_entity_id, target_entity_id) ==
    LET r == [kg_relationships[i] EXCEPT !.source_entity_id = source_entity_id,
                                         !.target_entity_id = target_entity_id]
    IN
    /\ i \in DOMAIN kg_relationships
    /\ kg' = [KgNoCall EXCEPT !.op = "update_relationship",
                 !.error = RelationshipError(r),
                 !.source_entity_id = source_entity_id,
                 !.target_entity_id = target_entity_id]
    /\ kg_relationships' =
          IF RelationshipError(r) = "none" THEN [kg_relationships EXCEPT ![i] = r]
          ELSE kg_relationships
    /\ UNCHANGED <<kg_entities, kg_entity_facts, nonKgVars>>

\* ------------------------------------------ kg_get_entity_relationships
\* The three inner joins of both arms of the CTE: a relationship without
\* a source, a target or a type joins to nothing.
JoinedRelationships ==
    {i \in DOMAIN kg_relationships :
        /\ ~IsNull(kg_relationships[i].source_entity_id)
        /\ ~IsNull(kg_relationships[i].target_entity_id)
        /\ ~IsNull(kg_relationships[i].relationship_type_id)}

\* One row of entity_graph: relationship i found at the given depth.  path
\* lists the relationships followed to reach it; it is not a column, it
\* keeps apart the equal rows that UNION ALL keeps.
EntityGraphRow(i, depth, path) ==
    [source_name |-> kg_entities[Val(kg_relationships[i].source_entity_id)].name,
     rel_type |-> Val(kg_relationships[i].relationship_type_id),
     target_name |-> kg_entities[Val(kg_relationships[i].target_entity_id)].name,
     confidence_score |-> kg_relationships[i].confidence_score,
     depth |-> depth,
     next_entity_id |-> Val(kg_relationships[i].target_entity_id),
     path |-> Append(path, i)]

\* The base case without its WHERE clause.
EntityGraphBaseAnySource(entity_id_param) ==
    {EntityGraphRow(i, 1, << >>) : i \in JoinedRelationships}

\* Base case: direct relationships, WHERE r.source_entity_id =
\* entity_id_param.
EntityGraphBase(entity_id_param) ==
    {EntityGraphRow(i, 1, << >>) : i \in
        {j \in JoinedRelationships :
            /\ ~IsNull(entity_id_param)
            /\ Val(kg_relationships[j].source_entity_id) = Val(entity_id_param)}}

\* The recursive case with its bound off by one: eg.depth <= max_depth.
EntityGraphStepOneMore(working, max_depth) ==
    {EntityGraphRow(p[2], p[1].depth + 1, p[1].path) : p \in
        {q \in working \X JoinedRelationships :
            /\ q[1].next_entity_id = Val(kg_relationships[q[2]].source_entity_id)
            /\ q[1].depth < max_depth + 1}}

\* The recursive case with a cycle guard: a relationship is followed once.
EntityGraphStepGuarded(working, max_depth) ==
    {EntityGraphRow(p[2], p[1].depth + 1, p[1].path) : p \in
        {q \in working \X JoinedRelationships :
            /\ q[1].next_entity_id = Val(kg_relationships[q[2]].source_entity_id)
            /\ q[1].depth < max_depth
            /\ q[2] \notin Range(q[1].path)}}

\* The recursive case under UNION instead of UNION ALL: of the rows equal
\* in every column one is kept.
EntityGraphStepDistinct(working, max_depth) ==
    LET rows == {EntityGraphRow(p[2], p[1].depth + 1, p[1].path) : p \in
                    {q \in working \X JoinedRelationships :
                        /\ q[1].next_entity_id = Val(kg_relationships[q[2]].source_entity_id)
                        /\ q[1].depth < max_depth}}
    IN {CHOOSE r \in rows : [r EXCEPT !.path = << >>] = c :
            c \in {[r EXCEPT !.path = << >>] : r \in rows}}

\* Recursive case: the rows of the previous iteration joined to the
\* relationships leaving their targets, WHERE eg.depth < max_depth.
EntityGraphStep(working, max_depth) ==
    {EntityGraphRow(p[2], p[1].depth + 1, p[1].path) : p \in
        {q \in working \X JoinedRelationships :
            /\ q[1].next_entity_id = Val(kg_relationships[q[2]].source_entity_id)
            /\ q[1].depth < max_depth}}

\* WITH RECURSIVE ... UNION ALL: the working table is fed back until an
\* iteration produces no row.
RECURSIVE EntityGraph(_, _)
EntityGraph(working, max_depth) ==
    IF working = {} THEN {}
    ELSE working \cup EntityGraph(EntityGraphStep(working, max_depth), max_depth)

\* x DESC puts NULL first.
DescNotAfter(x, y) == IsNull(x) \/ (~IsNull(y) /\ Val(x) >= Val(y))
DescBefore(x, y) == ~DescNotAfter(y, x)

\* The final ORDER BY with the two keys swapped.
EntityGraphOrderConfidenceFirst(a, b) ==
    \/ DescBefore(a.confidence_score, b.confidence_score)
    \/ a.confidence_score = b.confidence_score /\ a.depth <= b.depth

\* ORDER BY depth, confidence_score DESC
EntityGraphOrder(a, b) ==
    \/ a.depth < b.depth
    \/ a.depth = b.depth /\ DescNotAfter(a.confidence_score, b.confidence_score)

\* Two rows of entity_graph equal in every column: the caller cannot tell
\* which of them it was given, and they are taken in the order of their
\* paths.
SameColumns(a, b) == [a EXCEPT !.path = << >>] = [b EXCEPT !.path = << >>]

KgGetEntityRelationships(entity_id_param, max_depth, max_results) ==
    LET rows == EntityGraph(EntityGraphBase(entity_id_param), max_depth) IN
    /\ \E out \in TopN(rows,
                       {p \in rows \X rows :
                           /\ EntityGraphOrder(p[1], p[2])
                           /\ SameColumns(p[1], p[2]) => LexNotAfter(p[1].path, p[2].path)},
                       max_results) :
          kg' = [KgNoCall EXCEPT !.op = "kg_get_entity_relationships",
                    !.entity_id_param = entity_id_param,
                    !.max_depth = max_depth,
                    !.limit = Some(max_results),
                    !.rows = out]
    /\ UNCHANGED <<kg_entities, kg_relationships, kg_entity_facts, nonKgVars>>

\* ----------------------------------------------- graph specification
\* Entities of the graph specification: typed, named after their position.
EntityNames == <<"A", "B", "C", "D">>

\* The relationships it inserts: a chain 1 -> 2 -> 3 -> 4, the way back
\* 2 -> 1, a second 1 -> 2, a shortcut 1 -> 3 without a type, a 2 -> 3
\* without a confidence, a self-relationship, an orphan and one to an
\* entity that does not exist.
GraphRelationships ==
    {[source_entity_id |-> Some(1), target_entity_id |-> Some(2),
      relationship_type_id |-> Some("WORKS_FOR"), confidence_score |-> Some(50)],
     [source_entity_id |-> Some(1), target_entity_id |-> Some(2),
      relationship_type_id |-> Some("RELATED_TO"), confidence_score |-> Some(99)],
     [source_entity_id |-> Some(2), target_entity_id |-> Some(3),
      relationship_type_id |-> Some("LOCATED_IN"), confidence_score |-> Some(99)],
     [source_entity_id |-> Some(3), target_entity_id |-> Some(4),
      relationship_type_id |-> Some("RELATED_TO"), confidence_score |-> Some(50)],
     [source_entity_id |-> Some(2), target_entity_id |-> Some(1),
      relationship_type_id |-> Some("RELATED_TO"), confidence_score |-> Some(99)],
     [source_entity_id |-> Some(1), target_entity_id |-> Some(3),
      relationship_type_id |-> Null, confidence_score |-> Some(99)],
     [source_entity_id |-> Some(2), target_entity_id |-> Some(3),
      relationship_type_id |-> Some("RELATED_TO"), confidence_score |-> Null],
     [source_entity_id |-> Some(1), target_entity_id |-> Some(1),
      relationship_type_id |-> Some("RELATED_TO"), confidence_score |-> Some(99)],
     [source_entity_id |-> Null, target_entity_id |-> Null,
      relationship_type_id |-> Some("RELATED_TO"), confidence_score |-> Some(50)],
     [source_entity_id |-> Some(1), target_entity_id |-> Some(5),
      relationship_type_id |-> Some("RELATED_TO"), confidence_score |-> Some(50)]}

\* The max_depth of its traversals.
TraversalDepths == 0..3

\* A max_results no result of the specification reaches.
NonBinding == 100

\* The session is idle: the outcome of the previous statement has been
\* read.
KgIdleSession == kg = KgNoCall

\* The caller reads the outcome, the returned rows or the error; the next
\* statement can start.
KgFetchRows ==
    /\ ~KgIdleSession
    /\ kg' = KgNoCall
    /\ UNCHANGED <<kg_entities, kg_relationships, kg_entity_facts, nonKgVars>>

GraphInsertEntity ==
    /\ KgIdleSession
    /\ Len(kg_entities) < Len(EntityNames)
    /\ InsertEntity(EntityNames[Len(kg_entities) + 1], Some("PERSON"), Null)

\* It stores its relationships once its entities are there, and none of
\* them twice over.
GraphInsertRelationship ==
    \E r \in GraphRelationships \ Range(kg_relationships) :
        /\ KgIdleSession
        /\ Len(kg_entities) = Len(EntityNames)
        /\ Len(kg_relationships) < MaxRelationships
        /\ InsertRelationship(r)

\* An update moves a relationship's target onto its own source or onto
\* entity 1.
GraphUpdateRelationship ==
    \E i \in DOMAIN kg_relationships :
    \E t \in {kg_relationships[i].source_entity_id, Some(1)} :
        /\ KgIdleSession
        /\ [kg_relationships[i] EXCEPT !.target_entity_id = t] \notin Range(kg_relationships)
        /\ UpdateRelationship(i, kg_relationships[i].source_entity_id, t)

GraphTraverse ==
    \E e \in {Some(1), Some(2)}, d \in TraversalDepths, n \in {1, MaxResults, NonBinding} :
        KgIdleSession /\ KgGetEntityRelationships(e, d, n)

GraphInit ==
    /\ KgIdle
    /\ MemIdle
    /\ variable_conflict = "error"
    /\ SearchIdle
    /\ TxIdle
    /\ IxIdle

GraphNext ==
    \/ GraphInsertEntity
    \/ GraphInsertRelationship
    \/ GraphUpdateRelationship
    \/ GraphTraverse
    \/ KgFetchRows

SpecGraph == GraphInit /\ [][GraphNext]_vars

\* ------------------------------------------------------ memories: claims
\* C5 as stated: a recall, in any mode, adds 1 to access_count and sets
\* last_accessed to now for exactly the memories of its user that are
\* unexpired and at or above the importance floor, and changes nothing else.
C5_RecallTouches ==
    [][mem'.op = "recall" =>
        memories' =
            [i \in DOMAIN memories |->
                IF /\ memories[i].user_id = mem'.user_id_param
                   /\ \/ IsNull(memories[i].expires_at)
                      \/ Val(memories[i].expires_at) > now
                   /\ memories[i].importance_score >= mem'.min_importance
                THEN [memories[i] EXCEPT !.access_count = @ + 1,
                                         !.last_accessed = Some(now)]
                ELSE memories[i]]]_vars

\* C6: a store under a name that is not in the category table fails with
\* the category-not-found error and leaves the memory table as it was; a
\* store under a registered name adds exactly one row, leaves the others
\* alone and returns the new row's id.
C6_CategoryGatedStore ==
    [][mem'.op = "store" =>
        IF mem'.category_name \notin DOMAIN categories
        THEN /\ mem'.error = "category_not_found"
             /\ memories' = memories
        ELSE /\ mem'.error = "none"
             /\ mem'.memory_uuid \notin DOMAIN memories
             /\ DOMAIN memories' = DOMAIN memories \cup {mem'.memory_uuid}
             /\ \A i \in DOMAIN memories : memories'[i] = memories[i]
             /\ memories'[mem'.memory_uuid].user_id = mem'.user_id_param
             /\ memories'[mem'.memory_uuid].category_id = Some(mem'.category_name)]_vars

\* A store under an unregistered name has just failed on a table that
\* holds a memory.
C6_Witness ==
    /\ mem.op = "store"
    /\ mem.error = "category_not_found"
    /\ mem.category_name = "nonexistent"
    /\ DOMAIN memories # {}

\* C7: the row a store creates expires at its creation time plus the
\* override's days if an override is given, else plus the category's
\* retention days (730 for fact_corrections), and never only if neither is
\* set.
C7_ExpiryComputed ==
    [][(mem'.op = "store" /\ mem'.error = "none") =>
        LET m == memories'[mem'.memory_uuid]
            override == mem'.retention_days_override
            retention == categories[mem'.category_name].retention_days
        IN  /\ m.created_at = now
            /\ ~IsNull(override) => m.expires_at = Some(m.created_at + Val(override))
            /\ (IsNull(override) /\ ~IsNull(retention)) =>
                   m.expires_at = Some(m.created_at + Val(retention))
            /\ (IsNull(override) /\ mem'.category_name = "fact_corrections") =>
                   m.expires_at = Some(m.created_at + 730)
            /\ IsNull(m.expires_at) <=> (IsNull(override) /\ IsNull(retention))]_vars

\* A fact_corrections memory has just been stored without override, after
\* day 0, and expires 730 days after its creation; the table also holds a
\* memory stored with an override, expiring 30 days after its creation.
C7_Witness ==
    /\ mem.op = "store"
    /\ mem.error = "none"
    /\ mem.category_name = "fact_corrections"
    /\ IsNull(mem.retention_days_override)
    /\ memories[mem.memory_uuid].created_at > 0
    /\ memories[mem.memory_uuid].expires_at
           = Some(memories[mem.memory_uuid].created_at + 730)
    /\ \E i \in DOMAIN memories :
          memories[i].expires_at = Some(memories[i].created_at + 30)

\* C8: a sweep deletes exactly the memories whose expiry is set and before
\* now and returns how many they were; a sweep that follows a sweep
\* deletes nothing and returns 0.
C8_ExpirySweep ==
    [][mem'.op = "cleanup" =>
        /\ DOMAIN memories' =
              {i \in DOMAIN memories :
                  IsNull(memories[i].expires_at) \/ Val(memories[i].expires_at) >= now}
        /\ \A i \in DOMAIN memories' : memories'[i] = memories[i]
        /\ mem'.deleted_count
              = Cardinality(DOMAIN memories) - Cardinality(DOMAIN memories')
        /\ mem.op = "cleanup" => (mem'.deleted_count = 0 /\ memories' = memories)]_vars

\* A second sweep in a row has returned 0; a memory has been deleted
\* before, and the table holds a memory that never expires and one that
\* expires now.
C8_Witness ==
    /\ mem.op = "cleanup"
    /\ mem.repeat
    /\ mem.deleted_count = 0
    /\ Cardinality(DOMAIN memories) < next_memory_id - 1
    /\ \E i \in DOMAIN memories : IsNull(memories[i].expires_at)

\* C9: no step, a re-scoring pass or a recall, takes a memory's importance
\* from inside [0.1, 1.0] to outside it.
C9_ImportanceBounds ==
    [][\A i \in DOMAIN memories \cap DOMAIN memories' :
          (memories[i].importance_score >= 10 /\ memories[i].importance_score <= 100)
              => (memories'[i].importance_score >= 10
                  /\ memories'[i].importance_score <= 100)]_vars

\* A re-scoring pass has raised a memory to the cap 1.0.
C9_Witness ==
    /\ mem.op = "rescore"
    /\ \E i \in mem.changed :
          /\ memories[i].importance_score = 100
          /\ memories[i].access_count > 5

\* C10 as stated: a re-scoring pass that follows a re-scoring pass, no
\* recall and no clock change in between, changes no importance.
C10_RescoreIdempotent ==
    [][(mem.op = "rescore" /\ mem'.op = "rescore") =>
        \A i \in DOMAIN memories :
            memories'[i].importance_score = memories[i].importance_score]_vars

\* C10 as amended: a re-scoring pass that follows a re-scoring pass applies
\* the rules again: a memory accessed more than 5 times and within the last
\* 30 days gains 0.01 * access_count up to 1.0, one accessed fewer than 3
\* times and not within the last 90 days loses 0.1 down to 0.1, where it
\* already was at least 0.1, and any other memory keeps its importance.
C10_RescoreReapplied ==
    [][(mem.op = "rescore" /\ mem'.op = "rescore") =>
        \A i \in DOMAIN memories :
            LET m == memories[i]
                accessed == ~IsNull(m.last_accessed)
                reinforce == /\ accessed
                             /\ m.access_count > 5
                             /\ Val(m.last_accessed) > now - 30
                decay == /\ accessed
                         /\ m.access_count < 3
                         /\ Val(m.last_accessed) < now - 90
                after == memories'[i].importance_score
            IN  /\ reinforce =>
                      after = Min2(100, m.importance_score + m.access_count)
                /\ decay =>
                      /\ m.importance_score >= 10
                      /\ after = IF m.importance_score >= 20
                                 THEN m.importance_score - 10 ELSE 10
                /\ (~reinforce /\ ~decay) => after = m.importance_score
                /\ after = m.importance_score <=>
                      \/ ~reinforce /\ ~decay
                      \/ reinforce /\ m.importance_score = 100
                      \/ decay /\ m.importance_score = 10]_vars

\* A second re-scoring pass in a row has changed an importance again.
C10_Witness ==
    /\ mem.op = "rescore"
    /\ mem.repeat
    /\ mem.changed # {}

\* ------------------------------------------------------ entity lookups
\* similarity(a, b) of pg_trgm, in hundredths, on the names of the model:
\* 'alpha' and 'alphb' share four of their eight trigrams.
NameSimilarity(a, b) ==
    IF a = b THEN 100
    ELSE IF {a, b} = {"alpha", "alphb"} THEN 50
    ELSE 0

\* JOIN kg_entity_types et ON e.entity_type_id = et.id: an entity without
\* a type joins to nothing.
TypedEntities == {i \in DOMAIN kg_entities : ~IsNull(kg_entities[i].entity_type_id)}

\* The rows of kg_find_similar_entities' query: WHERE similarity(e.name,
\* query_name) > similarity_threshold, NULL for a NULL query_name.
SimilarEntityRows(query_name, threshold) ==
    {[entity_id |-> i, entity_name |-> kg_entities[i].name,
      entity_type |-> kg_entities[i].entity_type_id,
      similarity_score |-> NameSimilarity(kg_entities[i].name, Val(query_name))] :
        i \in {j \in TypedEntities :
                 /\ ~IsNull(query_name)
                 /\ NameSimilarity(kg_entities[j].name, Val(query_name)) > threshold}}

\* ORDER BY sim_score DESC; ORDER BY e.embedding <=> query_embedding.
SimilarityScoreOrder(a, b) == a.similarity_score >= b.similarity_score

\* similarity() of pg_trgm returns real and the function declares
\* similarity_score FLOAT (double precision); RETURN QUERY does not
\* convert: error 42804, "structure of query does not match function
\* result type", whatever the rows.  1 - (vector <=> vector) is double
\* precision.
KgResultTypeMismatch(fn) == fn = "kg_find_similar_entities"

KgFindSimilarEntities(query_name, threshold, max_results) ==
    LET rows == SimilarEntityRows(query_name, threshold)
        call == [KgNoCall EXCEPT !.op = "kg_find_similar_entities",
                    !.query_name = query_name,
                    !.similarity_threshold = threshold,
                    !.limit = Some(max_results)]
    IN
    /\ IF KgResultTypeMismatch("kg_find_similar_entities")
       THEN kg' = [call EXCEPT !.error = "datatype_mismatch"]
       ELSE \E out \in TopN(rows, {p \in rows \X rows : SimilarityScoreOrder(p[1], p[2])},
                             max_results) :
               kg' = [call EXCEPT !.rows = out]
    /\ UNCHANGED <<kg_entities, kg_relationships, kg_entity_facts, nonKgVars>>

\* The rows of kg_search_entities_by_embedding's query: WHERE e.embedding
\* IS NOT NULL AND 1 - (e.embedding <=> query_embedding) >
\* similarity_threshold, NULL for a NULL query_embedding.
EmbeddingEntityRows(query_embedding, threshold) ==
    {[entity_id |-> i, entity_name |-> kg_entities[i].name,
      entity_type |-> kg_entities[i].entity_type_id,
      similarity_score |->
          100 - Val(CosineDistance(kg_entities[i].embedding, query_embedding))] :
        i \in {j \in TypedEntities :
                 /\ ~IsNull(kg_entities[j].embedding)
                 /\ ~IsNull(query_embedding)
                 /\ 100 - Val(CosineDistance(kg_entities[j].embedding, query_embedding))
                        > threshold}}

KgSearchEntitiesByEmbedding(query_embedding, threshold, max_results) ==
    LET rows == EmbeddingEntityRows(query_embedding, threshold)
        call == [KgNoCall EXCEPT !.op = "kg_search_entities_by_embedding",
                    !.query_embedding = query_embedding,
                    !.similarity_threshold = threshold,
                    !.limit = Some(max_results)]
    IN
    /\ IF KgResultTypeMismatch("kg_search_entities_by_embedding")
       THEN kg' = [call EXCEPT !.error = "datatype_mismatch"]
       ELSE \E out \in TopN(rows, {p \in rows \X rows : SimilarityScoreOrder(p[1], p[2])},
                             max_results) :
               kg' = [call EXCEPT !.rows = out]
    /\ UNCHANGED <<kg_entities, kg_relationships, kg_entity_facts, nonKgVars>>

\* The entities the lookup specification inserts: name, type, embedding.
LookupEntities ==
    {<<"alpha", Some("PERSON"), Some("va")>>,
     <<"alpha", Null, Some("va")>>,
     <<"alphb", Some("ORGANIZATION"), Some("vc")>>,
     <<"alphb", Some("PERSON"), Null>>,
     <<"zeta", Null, Null>>,
     <<"zeta", Some("LOCATION"), Some("va")>>}

LookupInsertEntity ==
    \E e \in LookupEntities :
        /\ KgIdleSession
        /\ Len(kg_entities) < MaxEntities
        /\ InsertEntity(e[1], e[2], e[3])

LookupByName ==
    \E q \in {Null, Some("alpha")}, t \in {30, 50}, n \in 0..MaxResults :
        KgIdleSession /\ KgFindSimilarEntities(q, t, n)

LookupByEmbedding ==
    \E q \in {Null, Some("va")}, t \in {70, 100}, n \in 0..MaxResults :
        KgIdleSession /\ KgSearchEntitiesByEmbedding(q, t, n)

LookupNext ==
    \/ LookupInsertEntity
    \/ LookupByName
    \/ LookupByEmbedding
    \/ KgFetchRows

SpecLookup == GraphInit /\ [][LookupNext]_vars

\* ------------------------------------------------ kg_get_entity_timeline
\* INSERT INTO kg_entity_facts: entity_id is NULL or the id of an entity.
InsertFact(f) ==
    LET ok == IsNull(f.entity_id) \/ Val(f.entity_id) \in DOMAIN kg_entities IN
    /\ kg' = [KgNoCall EXCEPT !.op = "insert_fact",
                 !.error = IF ok THEN "none" ELSE "foreign_key_violation"]
    /\ kg_entity_facts' = IF ok THEN Append(kg_entity_facts, f) ELSE kg_entity_facts
    /\ UNCHANGED <<kg_entities, kg_relationships, nonKgVars>>

\* The WHERE clause with the window's ends left open: > and <.
InWindowOpen(f, entity_id_param, start_date, end_date) ==
    /\ ~IsNull(f.entity_id) /\ ~IsNull(entity_id_param)
    /\ Val(f.entity_id) = Val(entity_id_param)
    /\ IsNull(start_date) \/ (~IsNull(f.fact_date) /\ Val(f.fact_date) > Val(start_date))
    /\ IsNull(end_date) \/ (~IsNull(f.fact_date) /\ Val(f.fact_date) < Val(end_date))

\* The WHERE clause letting a fact without a date through its bounds.
InWindowUndated(f, entity_id_param, start_date, end_date) ==
    /\ ~IsNull(f.entity_id) /\ ~IsNull(entity_id_param)
    /\ Val(f.entity_id) = Val(entity_id_param)
    /\ IsNull(start_date) \/ IsNull(f.fact_date) \/ Val(f.fact_date) >= Val(start_date)
    /\ IsNull(end_date) \/ IsNull(f.fact_date) \/ Val(f.fact_date) <= Val(end_date)

\* WHERE ef.entity_id = entity_id_param AND (start_date IS NULL OR
\* ef.fact_date >= start_date) AND (end_date IS NULL OR ef.fact_date <=
\* end_date): a comparison with a NULL fact_date is NULL and drops the row.
InWindow(f, entity_id_param, start_date, end_date) ==
    /\ ~IsNull(f.entity_id) /\ ~IsNull(entity_id_param)
    /\ Val(f.entity_id) = Val(entity_id_param)
    /\ IsNull(start_date) \/ (~IsNull(f.fact_date) /\ Val(f.fact_date) >= Val(start_date))
    /\ IsNull(end_date) \/ (~IsNull(f.fact_date) /\ Val(f.fact_date) <= Val(end_date))

\* One returned row; fact is the row's id in kg_entity_facts, which is not
\* a column of the result and stands for fact_type, fact_text and
\* document_id.
TimelineRow(i) ==
    [fact |-> i, fact_date |-> kg_entity_facts[i].fact_date,
     confidence_score |-> kg_entity_facts[i].confidence_score]

\* x DESC NULLS LAST
DescNullsLastBefore(x, y) == ~IsNull(x) /\ (IsNull(y) \/ Val(x) > Val(y))

\* ORDER BY ef.fact_date DESC NULLS LAST, ef.confidence_score DESC
TimelineOrder(a, b) ==
    \/ DescNullsLastBefore(a.fact_date, b.fact_date)
    \/ a.fact_date = b.fact_date /\ DescNotAfter(a.confidence_score, b.confidence_score)

\* The function takes no limit: every row of the query is returned.
KgGetEntityTimeline(entity_id_param, start_date, end_date) ==
    LET rows == {TimelineRow(i) : i \in
                   {j \in DOMAIN kg_entity_facts :
                       InWindow(kg_entity_facts[j], entity_id_param, start_date, end_date)}}
    IN
    /\ \E out \in TopN(rows, {p \in rows \X rows : TimelineOrder(p[1], p[2])},
                       Cardinality(rows)) :
          kg' = [KgNoCall EXCEPT !.op = "kg_get_entity_timeline",
                    !.entity_id_param = entity_id_param,
                    !.start_date = start_date,
                    !.end_date = end_date,
                    !.rows = out]
    /\ UNCHANGED <<kg_entities, kg_relationships, kg_entity_facts, nonKgVars>>

\* The facts the timeline specification inserts: of entity 1 or 2, dated
\* day 10, day 20 or not at all, of confidence 0.5 or 0.9, valid always or
\* from day 30 to day 40 only.
TimelineFacts ==
    {f \in [entity_id : {Some(1), Some(2)}, fact_date : {Null, Some(10), Some(20)},
            confidence_score : {Some(50), Some(90)},
            valid_from : {Null, Some(30)}, valid_until : {Null, Some(40)}] :
        IsNull(f.valid_from) <=> IsNull(f.valid_until)}

TimelineInsertEntity ==
    /\ KgIdleSession
    /\ Len(kg_entities) < 2
    /\ kg_entity_facts = << >>
    /\ InsertEntity(EntityNames[Len(kg_entities) + 1], Some("PERSON"), Null)

TimelineInsertFact ==
    \E f \in TimelineFacts :
        /\ KgIdleSession
        /\ Len(kg_entity_facts) < MaxFacts
        /\ InsertFact(f)

TimelineGet ==
    \E e \in {Some(1)}, s \in {Null, Some(10), Some(20)}, t \in {Null, Some(10), Some(20)} :
        KgIdleSession /\ KgGetEntityTimeline(e, s, t)

TimelineNext ==
    \/ TimelineInsertEntity
    \/ TimelineInsertFact
    \/ TimelineGet
    \/ KgFetchRows

SpecTimeline == GraphInit /\ [][TimelineNext]_vars

\* ------------------------------------------------ knowledge graph: claims
\* What the claims read off a finished traversal.
Traversed == kg.op = "kg_get_entity_relationships"
TraversalRows == EntityGraph(EntityGraphBase(kg.entity_id_param), kg.max_depth)
ReturnedRows == Range(kg.rows)

\* C13: a traversal with max depth D >= 1 returns no row deeper than D and
\* no row of depth below 1.
C13_TraversalDepthBound ==
    (Traversed /\ kg.max_depth >= 1) =>
        \A k \in DOMAIN kg.rows :
            kg.rows[k].depth >= 1 /\ kg.rows[k].depth <= kg.max_depth

\* A traversal with max depth 2 returned a row of depth 2 whose target has
\* a relationship leaving it: the chain, or the cycle, goes on below.
C13_Witness ==
    /\ Traversed
    /\ kg.max_depth = 2
    /\ \E k \in DOMAIN kg.rows :
          /\ kg.rows[k].depth = 2
          /\ \E i \in JoinedRelationships :
                Val(kg_relationships[i].source_entity_id) = kg.rows[k].next_entity_id

\* C14: the rows of a traversal come by depth ascending and, within a
\* depth, by confidence descending, and the rows cut by max_results are
\* not before any row kept: none is shallower, none of the same depth has
\* a higher confidence.
C14_TraversalOrdering ==
    Traversed =>
        /\ \A j, k \in DOMAIN kg.rows : j < k =>
              /\ kg.rows[j].depth <= kg.rows[k].depth
              /\ (/\ kg.rows[j].depth = kg.rows[k].depth
                  /\ ~IsNull(kg.rows[j].confidence_score)
                  /\ ~IsNull(kg.rows[k].confidence_score))
                    => Val(kg.rows[j].confidence_score) >= Val(kg.rows[k].confidence_score)
        /\ \A x \in TraversalRows \ ReturnedRows : \A y \in ReturnedRows :
              /\ x.depth >= y.depth
              /\ (/\ x.depth = y.depth
                  /\ ~IsNull(x.confidence_score)
                  /\ ~IsNull(y.confidence_score))
                    => Val(y.confidence_score) >= Val(x.confidence_score)

\* A truncated traversal kept a depth-1 row of confidence 0.5 and left out
\* a depth-2 row of confidence 0.99.
C14_Witness ==
    /\ Traversed
    /\ \E y \in ReturnedRows : y.depth = 1 /\ y.confidence_score = Some(50)
    /\ \E x \in TraversalRows \ ReturnedRows :
          x.depth = 2 /\ x.confidence_score = Some(99)

\* The relationships are exactly the edges of a simple chain c[1] -> c[2]
\* -> ... of existing entities, each with a type.
IsChain(c) ==
    /\ Len(c) = Len(kg_relationships) + 1
    /\ \A j, k \in DOMAIN c : j # k => c[j] # c[k]
    /\ JoinedRelationships = DOMAIN kg_relationships
    /\ \A k \in 1..Len(kg_relationships) : \E i \in DOMAIN kg_relationships :
          /\ kg_relationships[i].source_entity_id = Some(c[k])
          /\ kg_relationships[i].target_entity_id = Some(c[k + 1])
Chains ==
    {c \in [1..(Len(kg_relationships) + 1) -> DOMAIN kg_entities] : IsChain(c)}

\* C15: on a graph that is a simple chain from the root, a traversal with
\* max depth D >= 1 and a limit that does not bind returns exactly the
\* first min(D, chain length) edges, the k-th at depth k.
C15_ChainTraversal ==
    (Traversed /\ kg.max_depth >= 1 /\ Val(kg.limit) = NonBinding) =>
        \A c \in Chains : c[1] = Val(kg.entity_id_param) =>
            /\ Len(kg.rows) = Min2(kg.max_depth, Len(kg_relationships))
            /\ \A k \in DOMAIN kg.rows :
                  /\ kg.rows[k].depth = k
                  /\ kg.rows[k].source_name = kg_entities[c[k]].name
                  /\ kg.rows[k].target_name = kg_entities[c[k + 1]].name

\* The graph is A -> B -> C and the traversal from A with max depth 2
\* returned two rows; and a chain of three edges was cut at depth 2.
C15_Witness ==
    /\ Traversed
    /\ kg.max_depth = 2
    /\ kg.limit = Some(NonBinding)
    /\ kg.entity_id_param = Some(1)
    /\ Chains # {}
    /\ Len(kg_relationships) = 2
    /\ Len(kg.rows) = 2
    /\ kg.rows[1].source_name = "A" /\ kg.rows[1].target_name = "B"
    /\ kg.rows[2].source_name = "B" /\ kg.rows[2].target_name = "C"

\* No row of kg_relationships has its source as its target.
NoSelfRelationships ==
    \A i \in DOMAIN kg_relationships :
        ~(/\ ~IsNull(kg_relationships[i].source_entity_id)
          /\ kg_relationships[i].source_entity_id = kg_relationships[i].target_entity_id)

\* C16: after any insert or update no relationship has its source as its
\* target, and an insert or update asking for one is rejected and leaves
\* the table as it was.
C16_NoSelfRelationship ==
    [][/\ NoSelfRelationships'
       /\ (/\ kg'.op \in {"insert_relationship", "update_relationship"}
           /\ ~IsNull(kg'.source_entity_id)
           /\ kg'.source_entity_id = kg'.target_entity_id)
             => /\ kg'.error = "check_violation"
                /\ kg_relationships' = kg_relationships]_vars

\* An update asking for a self-relationship has just been rejected, the
\* table holding the relationship it was aimed at.
C16_Witness ==
    /\ kg.op = "update_relationship"
    /\ kg.error = "check_violation"
    /\ kg.source_entity_id = kg.target_entity_id
    /\ kg_relationships # << >>

\* The joined relationships are exactly a -> b and b -> a.
IsTwoCycle(a, b) ==
    /\ a # b
    /\ Len(kg_relationships) = 2
    /\ JoinedRelationships = DOMAIN kg_relationships
    /\ \E i, j \in DOMAIN kg_relationships :
          /\ kg_relationships[i].source_entity_id = Some(a)
          /\ kg_relationships[i].target_entity_id = Some(b)
          /\ kg_relationships[j].source_entity_id = Some(b)
          /\ kg_relationships[j].target_entity_id = Some(a)

\* C20: on the graph a -> b, b -> a, a traversal from a with max depth
\* D >= 1 and a limit that does not bind returns one row at every depth
\* 1..D, a -> b at the odd depths and b -> a at the even ones.
C20_NoCycleGuard ==
    (Traversed /\ kg.max_depth >= 1 /\ Val(kg.limit) = NonBinding) =>
        \A a, b \in DOMAIN kg_entities :
            (IsTwoCycle(a, b) /\ kg.entity_id_param = Some(a)) =>
                /\ Len(kg.rows) = kg.max_depth
                /\ \A k \in DOMAIN kg.rows :
                      /\ kg.rows[k].depth = k
                      /\ kg.rows[k].source_name =
                            kg_entities[IF k % 2 = 1 THEN a ELSE b].name
                      /\ kg.rows[k].target_name =
                            kg_entities[IF k % 2 = 1 THEN b ELSE a].name

\* A traversal of max depth 3 over the cycle A -> B, B -> A returned A -> B
\* a second time, at depth 3.
C20_Witness ==
    /\ Traversed
    /\ IsTwoCycle(1, 2)
    /\ kg.entity_id_param = Some(1)
    /\ kg.max_depth = 3
    /\ Len(kg.rows) = 3
    /\ kg.rows[3].source_name = "A" /\ kg.rows[3].target_name = "B"

\* The entities a lookup is to find: those whose name is more similar to
\* the query than the threshold, or whose embedding is.
LookupExpected ==
    IF kg.op = "kg_find_similar_entities"
    THEN {i \in DOMAIN kg_entities :
            /\ ~IsNull(kg.query_name)
            /\ NameSimilarity(kg_entities[i].name, Val(kg.query_name))
                   > kg.similarity_threshold}
    ELSE {i \in DOMAIN kg_entities :
            /\ ~IsNull(kg.query_embedding)
            /\ ~IsNull(kg_entities[i].embedding)
            /\ 100 - Dist(Val(kg_entities[i].embedding), Val(kg.query_embedding))
                   > kg.similarity_threshold}

\* C17 as stated: a lookup by name or by embedding returns, most similar
\* first and up to its limit, every entity above its threshold, typed or
\* not.
C17_LookupComplete ==
    kg.op \in {"kg_find_similar_entities", "kg_search_entities_by_embedding"} =>
        /\ kg.error = "none"
        /\ Len(kg.rows) = Min2(Val(kg.limit), Cardinality(LookupExpected))
        /\ {kg.rows[k].entity_id : k \in DOMAIN kg.rows} \subseteq LookupExpected
        /\ \A j, k \in DOMAIN kg.rows : j < k =>
              /\ kg.rows[j].entity_id # kg.rows[k].entity_id
              /\ kg.rows[j].similarity_score >= kg.rows[k].similarity_score

\* What the claims read off a finished timeline call.
TimelineCalled == kg.op = "kg_get_entity_timeline"
TimelineExpected ==
    {i \in DOMAIN kg_entity_facts :
        /\ kg_entity_facts[i].entity_id = kg.entity_id_param
        /\ IsNull(kg.start_date)
              \/ (/\ ~IsNull(kg_entity_facts[i].fact_date)
                  /\ Val(kg.start_date) <= Val(kg_entity_facts[i].fact_date))
        /\ IsNull(kg.end_date)
              \/ (/\ ~IsNull(kg_entity_facts[i].fact_date)
                  /\ Val(kg_entity_facts[i].fact_date) <= Val(kg.end_date))}

\* C18: the timeline returns, each once, exactly the facts of the entity
\* asked for whose date is within the bounds given, dated facts first by
\* date descending, undated facts last, facts of one date by confidence
\* descending.
C18_TimelineWindow ==
    TimelineCalled =>
        /\ {kg.rows[k].fact : k \in DOMAIN kg.rows} = TimelineExpected
        /\ Len(kg.rows) = Cardinality(TimelineExpected)
        /\ \A j, k \in DOMAIN kg.rows : j < k =>
              /\ IsNull(kg.rows[j].fact_date) => IsNull(kg.rows[k].fact_date)
              /\ (~IsNull(kg.rows[j].fact_date) /\ ~IsNull(kg.rows[k].fact_date))
                    => Val(kg.rows[j].fact_date) >= Val(kg.rows[k].fact_date)
              /\ kg.rows[j].fact_date = kg.rows[k].fact_date
                    => Val(kg.rows[j].confidence_score) >= Val(kg.rows[k].confidence_score)

\* A timeline without bounds returned a dated fact before an undated one
\* and left out a fact of another entity; and one with both bounds set to
\* day 10 returned the fact dated day 10.
C18_Witness ==
    /\ TimelineCalled
    /\ \/ /\ IsNull(kg.start_date) /\ IsNull(kg.end_date)
          /\ Len(kg.rows) = 2
          /\ ~IsNull(kg.rows[1].fact_date) /\ IsNull(kg.rows[2].fact_date)
       \/ /\ kg.start_date = Some(10) /\ kg.end_date = Some(10)
          /\ Len(kg.rows) = 1
          /\ Len(kg_entity_facts) = 2

\* C19 as stated: a retrieval is given a result-count limit and returns no
\* more rows than it.
C19_ExplicitLimit ==
    kg.op \in {"kg_find_similar_entities", "kg_search_entities_by_embedding",
               "kg_get_entity_relationships", "kg_get_entity_timeline"} =>
        /\ ~IsNull(kg.limit)
        /\ Len(kg.rows) <= Val(kg.limit)

\* ------------------------------------------------ memories: recall rows
\* The memories a completed recall returned.
RecalledIds == {mem.rows[k].memory_id : k \in DOMAIN mem.rows}

\* C12: every memory a recall returns, in any mode, belongs to the
\* requested user, is not expired at the time of the call (expires_at is
\* NULL or strictly later than now) and has an importance at or above the
\* floor; and the result has no more rows than max_memories.
C12_RecallFilter ==
    mem.op = "recall" =>
        /\ Len(mem.rows) <= mem.max_memories
        /\ \A i \in RecalledIds :
              /\ i \in DOMAIN memories
              /\ memories[i].user_id = mem.user_id_param
              /\ \/ IsNull(memories[i].expires_at)
                 \/ Val(memories[i].expires_at) > now
              /\ memories[i].importance_score >= mem.min_importance

\* A recall has returned a memory while the table held, of the same user
\* and at or above the floor, an expired memory.
C12_Witness ==
    /\ mem.op = "recall"
    /\ mem.error = "none"
    /\ RecalledIds # {}
    /\ \E i \in DOMAIN memories \ RecalledIds :
          /\ memories[i].user_id = mem.user_id_param
          /\ ~IsNull(memories[i].category_id)
          /\ ~IsNull(memories[i].expires_at)
          /\ Val(memories[i].expires_at) <= now
          /\ memories[i].importance_score >= mem.min_importance

\* ------------------------------------------- memories: concurrent callers
\* Each call of a memory function is one transaction of its caller, under
\* READ COMMITTED, the server's default.  Each statement of a function sees
\* the rows committed when it starts, with the transaction's own writes.
\* An UPDATE or DELETE takes the rows its WHERE clause matches there, one
\* at a time: it waits while another transaction holds a write on the row,
\* skips the row if it is gone, evaluates the WHERE clause again on the
\* row's latest version if that is not the one it saw, and writes the new
\* version from the latest one.  The writes are applied at commit and
\* dropped at rollback.  NOW() is the time the transaction started.
MaxConcurrentTouches == 2

Sessions == {"s1", "s2"}

\* sessions[s] while s has no statement running.
NoStatement ==
    [op |-> "none", stmt |-> 0, tnow |-> 0, mode |-> "",
     user_id_param |-> "", min_importance |-> 0,
     scan |-> << >>, writes |-> << >>, matched |-> {}]

\* expires_at IS NULL OR expires_at > NOW(), in a transaction started at t.
UnexpiredAt(m, t) == IsNull(m.expires_at) \/ Val(m.expires_at) > t

\* The WHERE clause of the access-tracking UPDATE (lines 97-99); the
\* unqualified importance_score is the column only under use_column.
TouchPredicateAt(m, user_id_param, min_importance, t) ==
    /\ m.user_id = user_id_param
    /\ UnexpiredAt(m, t)
    /\ IF variable_conflict = "use_column"
       THEN m.importance_score >= min_importance
       ELSE FALSE

\* A read-modify-write of the counter: one more than the value the
\* statement saw when it started.
TouchedRowFromSnapshot(latest, seen, t) ==
    [latest EXCEPT !.access_count = seen.access_count + 1, !.last_accessed = Some(t)]

\* SET access_count = access_count + 1, last_accessed = NOW(): the
\* increment is of the row's latest version.
TouchedRow(latest, seen, t) ==
    [latest EXCEPT !.access_count = @ + 1, !.last_accessed = Some(t)]

\* WHERE access_count > 5 AND last_accessed > NOW() - INTERVAL '30 days'
ReinforcePredicateAt(m, t) ==
    /\ m.access_count > 5
    /\ ~IsNull(m.last_accessed)
    /\ Val(m.last_accessed) > t - 30

\* SET importance_score = LEAST(1.0, importance_score + access_count * 0.01)
ReinforcedRow(m) ==
    [m EXCEPT !.importance_score = Least(100, Some(@ + m.access_count))]

\* WHERE last_accessed < NOW() - INTERVAL '90 days' AND access_count < 3
DecayPredicateAt(m, t) ==
    /\ ~IsNull(m.last_accessed)
    /\ Val(m.last_accessed) < t - 90
    /\ m.access_count < 3

\* SET importance_score = GREATEST(0.1, importance_score - 0.1)
DecayedRow(m) == [m EXCEPT !.importance_score = Greatest(10, Some(@ - 10))]

\* WHERE expires_at IS NOT NULL AND expires_at < NOW()
ExpiredAt(m, t) == ~IsNull(m.expires_at) /\ Val(m.expires_at) < t

\* The WHERE clause of the statement a session is running.
StatementPredicate(x, m) ==
    CASE x.op = "recall" -> TouchPredicateAt(m, x.user_id_param, x.min_importance, x.tnow)
      [] x.op = "rescore" /\ x.stmt = 1 -> ReinforcePredicateAt(m, x.tnow)
      [] x.op = "rescore" -> DecayPredicateAt(m, x.tnow)
      [] OTHER -> ExpiredAt(m, x.tnow)

\* The version the statement writes, Null for a deleted row.
StatementWrite(x, latest, seen) ==
    CASE x.op = "recall" -> Some(TouchedRow(latest, seen, x.tnow))
      [] x.op = "rescore" /\ x.stmt = 1 -> Some(ReinforcedRow(latest))
      [] x.op = "rescore" -> Some(DecayedRow(latest))
      [] OTHER -> Null

\* The UPDATEs and DELETEs of each function.
Statements(op) == IF op = "rescore" THEN 2 ELSE 1

\* The table with a transaction's writes: what the transaction sees, and
\* what everyone sees once it has committed.
WithWrites(tbl, writes) ==
    [i \in {j \in DOMAIN tbl : j \in DOMAIN writes => ~IsNull(writes[j])} |->
        IF i \in DOMAIN writes THEN Val(writes[i]) ELSE tbl[i]]

\* The session at the start of its n-th statement: the rows the statement
\* is going to take.
StartStatement(x, n) ==
    LET y == [x EXCEPT !.stmt = n]
        seen == WithWrites(memories, x.writes)
        taken == {i \in DOMAIN seen : StatementPredicate(y, seen[i])}
    IN [y EXCEPT !.scan = [i \in taken |-> seen[i]],
                 !.matched = IF n = 1 THEN taken ELSE @]

Open(s) == s \in DOMAIN sessions

\* Another transaction holds a write on row i.
RowLocked(s, i) == \E t \in DOMAIN sessions \ {s} : i \in DOMAIN sessions[t].writes

Begin(s, x) ==
    /\ ~Open(s)
    /\ sessions' = [t \in DOMAIN sessions \cup {s} |->
                      IF t = s THEN StartStatement(x, 1) ELSE sessions[t]]

End(s) == sessions' = [t \in DOMAIN sessions \ {s} |-> sessions[t]]

\* A caller calls get_research_memories_for_user.  Under variable_conflict
\* = error the call fails before its UPDATE has taken any row.
TxGetResearchMemoriesForUser(s, user_id_param, query_text, query_embedding, min_importance) ==
    /\ ~Open(s)
    /\ IF AmbiguousReference
       THEN /\ mem' = [Called("recall") EXCEPT !.error = "ambiguous_column",
                          !.user_id_param = user_id_param]
            /\ UNCHANGED sessions
       ELSE /\ Begin(s, [NoStatement EXCEPT !.op = "recall", !.tnow = now,
                            !.mode = RecallMode(query_text, query_embedding),
                            !.user_id_param = user_id_param,
                            !.min_importance = min_importance])
            /\ UNCHANGED mem
    /\ UNCHANGED <<now, variable_conflict, categories, memories, next_memory_id,
                   recalled, searchVars, kgVars, ixVars>>

\* A caller calls update_memory_importance.
TxUpdateMemoryImportance(s) ==
    /\ Begin(s, [NoStatement EXCEPT !.op = "rescore", !.tnow = now])
    /\ UNCHANGED <<memVars, recalled, searchVars, kgVars, ixVars>>

\* A caller calls cleanup_expired_memories.
TxCleanupExpiredMemories(s) ==
    /\ Begin(s, [NoStatement EXCEPT !.op = "sweep", !.tnow = now])
    /\ UNCHANGED <<memVars, recalled, searchVars, kgVars, ixVars>>

\* The running statement of s takes row i.
TxRow(s, i) ==
    /\ Open(s)
    /\ i \in DOMAIN sessions[s].scan
    /\ ~RowLocked(s, i)
    /\ LET x == sessions[s]
           seen == x.scan[i]
           now_there == WithWrites(memories, x.writes)
           rest == [j \in DOMAIN x.scan \ {i} |-> x.scan[j]]
           written == IF i \notin DOMAIN now_there THEN x.writes
                      ELSE IF now_there[i] # seen /\ ~StatementPredicate(x, now_there[i])
                      THEN x.writes
                      ELSE [j \in DOMAIN x.writes \cup {i} |->
                              IF j = i THEN StatementWrite(x, now_there[i], seen)
                              ELSE x.writes[j]]
       IN sessions' = [sessions EXCEPT ![s] = [x EXCEPT !.scan = rest, !.writes = written]]
    /\ UNCHANGED <<memVars, recalled, searchVars, kgVars, ixVars>>

\* The statement has taken all its rows and the function goes on to its
\* next UPDATE.
TxNextStatement(s) ==
    /\ Open(s)
    /\ sessions[s].scan = << >>
    /\ sessions[s].stmt < Statements(sessions[s].op)
    /\ sessions' = [sessions EXCEPT ![s] = StartStatement(@, @.stmt + 1)]
    /\ UNCHANGED <<memVars, recalled, searchVars, kgVars, ixVars>>

\* The function has run its last UPDATE or DELETE.  A recall goes on to
\* its SELECT, which in the text mode raises (ResultTypeMismatch).
Finished(s) ==
    /\ Open(s)
    /\ sessions[s].scan = << >>
    /\ sessions[s].stmt = Statements(sessions[s].op)

\* The count of completed recalls whose UPDATE matched memory i.
Recalled(i) == IF i \in DOMAIN recalled THEN recalled[i] ELSE 0

\* The call returns and its transaction commits.
TxCommit(s) ==
    /\ Finished(s)
    /\ ~(sessions[s].op = "recall" /\ ResultTypeMismatch(sessions[s].mode))
    /\ memories' = WithWrites(memories, sessions[s].writes)
    /\ recalled' = IF sessions[s].op = "recall"
                   THEN [i \in DOMAIN recalled \cup sessions[s].matched |->
                           IF i \in sessions[s].matched THEN Recalled(i) + 1
                           ELSE recalled[i]]
                   ELSE recalled
    /\ End(s)
    /\ UNCHANGED <<now, variable_conflict, categories, next_memory_id, mem,
                   searchVars, kgVars, ixVars>>

\* The call raises and its transaction is rolled back.
TxRollback(s) ==
    /\ Finished(s)
    /\ sessions[s].op = "recall" /\ ResultTypeMismatch(sessions[s].mode)
    /\ End(s)
    /\ UNCHANGED <<memVars, recalled, searchVars, kgVars, ixVars>>

\* s waits for a row t has written and t for a row s has written: the
\* server ends one of the two with a deadlock error.
TxDeadlock(s) ==
    /\ Open(s)
    /\ \E t \in DOMAIN sessions \ {s} :
          /\ DOMAIN sessions[s].scan \cap DOMAIN sessions[t].writes # {}
          /\ DOMAIN sessions[t].scan \cap DOMAIN sessions[s].writes # {}
    /\ End(s)
    /\ UNCHANGED <<memVars, recalled, searchVars, kgVars, ixVars>>

\* The memories of the concurrent specification: one user's, at the
\* floor, kept for 30 days.  A store is one INSERT, and may come at any
\* time.
ConcurrentStore ==
    /\ next_memory_id <= MaxMemories
    /\ StoreResearchMemory("u1", "fact_corrections", "alpha", 30, Null, Some(30))

ConcurrentRecall ==
    \E s \in Sessions, q \in {Null, Some("alpha")} :
        /\ \A i \in DOMAIN memories : memories[i].access_count < MaxConcurrentTouches
        /\ TxGetResearchMemoriesForUser(s, "u1", q, Null, 30)

ConcurrentTick == now + 91 <= MaxRescoreNow /\ Tick(91)

ConcurrentNext ==
    \/ ConcurrentStore
    \/ ConcurrentRecall
    \/ \E s \in Sessions : TxUpdateMemoryImportance(s)
    \/ \E s \in Sessions : TxCleanupExpiredMemories(s)
    \/ \E s \in DOMAIN sessions : \E i \in DOMAIN sessions[s].scan : TxRow(s, i)
    \/ \E s \in Sessions : TxNextStatement(s)
    \/ \E s \in Sessions : TxCommit(s)
    \/ \E s \in Sessions : TxRollback(s)
    \/ \E s \in Sessions : TxDeadlock(s)
    \/ ConcurrentTick

SpecConcurrent == MemInit /\ [][ConcurrentNext]_vars

\* C11: under every interleaving of concurrent recalls, re-scorings and
\* sweeps, the access_count of a memory that survives a step does not
\* decrease, and after any step it lies between its initial value, 0, and
\* that value plus the number of completed recalls whose touch predicate
\* matched the memory.
C11_MonotonicAccessCount ==
    [][\A i \in DOMAIN memories' :
          /\ 0 <= memories'[i].access_count
          /\ memories'[i].access_count <= IF i \in DOMAIN recalled' THEN recalled'[i] ELSE 0
          /\ i \in DOMAIN memories => memories[i].access_count <= memories'[i].access_count]_vars

\* A memory has been incremented by two recalls, and a third, which ran
\* together with the second and matched the memory when it started, found
\* it re-scored below its floor and has completed leaving it alone.
C11_Witness ==
    \E i \in DOMAIN memories :
        /\ memories[i].access_count >= 2
        /\ Recalled(i) > memories[i].access_count

\* ------------------------------------------------ memories: recall modes
\* The memories the vector branch may return for the call in mem, by the
\* call's user, floor and vector alone.
VectorQualifying ==
    {i \in DOMAIN memories :
        /\ ~IsNull(memories[i].category_id)
        /\ memories[i].user_id = mem.user_id_param
        /\ IsNull(memories[i].expires_at) \/ Val(memories[i].expires_at) > now
        /\ memories[i].importance_score >= mem.min_importance
        /\ ~IsNull(memories[i].embedding)
        /\ 100 - Dist(Val(memories[i].embedding), Val(mem.query_embedding)) > 50}

\* The sort key of memory i in the vector branch.
VectorKey(i) ==
    <<categories[Val(memories[i].category_id)].priority,
      100 - Dist(Val(memories[i].embedding), Val(mem.query_embedding)),
      memories[i].importance_score, memories[i].access_count>>

\* C22: a recall takes the vector branch whenever it is given a vector,
\* the text branch only when it is given a text and no vector, and the
\* default branch only when it is given neither; given a vector, the rows
\* and their order are those of the vector and the memories, whatever the
\* text: the first max_memories of the user's unexpired memories at or
\* above the floor that are similar enough to the vector, by priority,
\* similarity, importance and access count, each descending.
C22_OneModePerCall ==
    (mem.op = "recall" /\ mem.error # "ambiguous_column") =>
        /\ mem.mode = "vector" <=> ~IsNull(mem.query_embedding)
        /\ mem.mode = "text" <=> (IsNull(mem.query_embedding) /\ ~IsNull(mem.query_text))
        /\ mem.mode = "default" <=> (IsNull(mem.query_embedding) /\ IsNull(mem.query_text))
        /\ ~IsNull(mem.query_embedding) =>
             /\ mem.error = "none"
             /\ RecalledIds \subseteq VectorQualifying
             /\ Len(mem.rows) = Min2(mem.max_memories, Cardinality(VectorQualifying))
             /\ \A k \in DOMAIN mem.rows :
                  mem.rows[k].relevance_score = VectorKey(mem.rows[k].memory_id)[2]
             /\ \A k, l \in DOMAIN mem.rows :
                  k < l => LexNotAfter(VectorKey(mem.rows[k].memory_id),
                                       VectorKey(mem.rows[l].memory_id))
             /\ \A i \in VectorQualifying \ RecalledIds : \A j \in RecalledIds :
                  LexNotAfter(VectorKey(j), VectorKey(i))

\* A recall given both a vector and a text has returned a memory, and has
\* left out a memory of the user that has no embedding.
C22_Witness ==
    /\ mem.op = "recall"
    /\ mem.error = "none"
    /\ ~IsNull(mem.query_embedding)
    /\ ~IsNull(mem.query_text)
    /\ RecalledIds # {}
    /\ \E i \in DOMAIN memories \ RecalledIds :
          memories[i].user_id = mem.user_id_param /\ IsNull(memories[i].embedding)

\* The rows of a completed default-mode recall.
DefaultRecall ==
    /\ mem.op = "recall"
    /\ mem.mode = "default"
    /\ mem.error = "none"

\* C23 as stated: a default-mode recall orders its rows by category
\* priority, then importance, then creation time, each descending, so of
\* two rows of equal priority and importance the later created comes
\* first; and each row's relevance is its importance.
C23_DefaultOrderCreated ==
    DefaultRecall =>
        /\ \A k \in DOMAIN mem.rows :
             mem.rows[k].relevance_score = mem.rows[k].importance_score
        /\ \A k, l \in DOMAIN mem.rows :
             k < l => LexNotAfter(<<mem.rows[k].priority, mem.rows[k].importance_score,
                                    mem.rows[k].created_at>>,
                                  <<mem.rows[l].priority, mem.rows[l].importance_score,
                                    mem.rows[l].created_at>>)

\* C23 amended: the order is by category priority, then importance, then
\* access count, then creation time, each descending; of two rows of equal
\* priority, importance and access count the later created comes first;
\* and each row's relevance is its importance.
C23_DefaultOrder ==
    DefaultRecall =>
        /\ \A k \in DOMAIN mem.rows :
             mem.rows[k].relevance_score = mem.rows[k].importance_score
        /\ \A k, l \in DOMAIN mem.rows :
             k < l => LexNotAfter(<<mem.rows[k].priority, mem.rows[k].importance_score,
                                    mem.rows[k].access_count, mem.rows[k].created_at>>,
                                  <<mem.rows[l].priority, mem.rows[l].importance_score,
                                    mem.rows[l].access_count, mem.rows[l].created_at>>)

\* A default-mode recall has returned, before a later created memory, an
\* earlier one of the same priority and importance accessed more often.
C23_Witness ==
    /\ DefaultRecall
    /\ \E k, l \in DOMAIN mem.rows :
          /\ k < l
          /\ mem.rows[k].priority = mem.rows[l].priority
          /\ mem.rows[k].importance_score = mem.rows[l].importance_score
          /\ mem.rows[k].access_count > mem.rows[l].access_count
          /\ mem.rows[k].created_at < mem.rows[l].created_at

\* ------------------------------------------- memories: re-scoring rules
\* C24: a re-scoring pass lowers by 0.1, not below 0.1, the importance of
\* every memory accessed fewer than 3 times and not within the last 90
\* days, be its last access more than 90 days old or be it never accessed.
C24_DecayUnaccessed ==
    [][mem'.op = "rescore" =>
        \A i \in DOMAIN memories :
            (/\ memories[i].access_count < 3
             /\ \/ IsNull(memories[i].last_accessed)
                \/ Val(memories[i].last_accessed) < now - 90)
            => memories'[i].importance_score =
                  (IF memories[i].importance_score - 10 >= 10
                   THEN memories[i].importance_score - 10 ELSE 10)]_vars

\* C25: in a re-scoring pass a memory whose importance is in [0, 1] and
\* that the decay rule selects does not come out with a higher importance,
\* and one that the reinforcement rule selects does not come out with a
\* lower one.
C25_RescoreDirection ==
    [][mem'.op = "rescore" =>
        \A i \in DOMAIN memories :
            (memories[i].importance_score >= 0 /\ memories[i].importance_score <= 100
             /\ ~IsNull(memories[i].last_accessed))
            => /\ (memories[i].access_count < 3
                   /\ Val(memories[i].last_accessed) < now - 90)
                  => memories'[i].importance_score <= memories[i].importance_score
               /\ (memories[i].access_count > 5
                   /\ Val(memories[i].last_accessed) > now - 30)
                  => memories'[i].importance_score >= memories[i].importance_score]_vars

\* ------------------------------------------- memories: expiry boundary
\* C27: a recall touches and returns only memories whose expires_at is
\* NULL or later than now, a sweep deletes only memories whose expires_at
\* is earlier than now, so that no memory is open to both at one instant;
\* and a memory whose expires_at is now is neither touched nor returned by
\* a recall nor deleted by a sweep.
C27_ExpiryBoundary ==
    [][/\ mem'.op = "recall" =>
            \A i \in DOMAIN memories :
                (memories'[i] # memories[i]
                    \/ \E k \in DOMAIN mem'.rows : mem'.rows[k].memory_id = i)
                => (IsNull(memories[i].expires_at) \/ Val(memories[i].expires_at) > now)
       /\ mem'.op = "cleanup" =>
            \A i \in DOMAIN memories :
                i \notin DOMAIN memories'
                => (~IsNull(memories[i].expires_at) /\ Val(memories[i].expires_at) < now)]_vars

\* A recall has returned a memory and left alone a memory of its user,
\* at or above the floor, that expires now.
C27_Witness ==
    /\ mem.op = "recall"
    /\ mem.error = "none"
    /\ RecalledIds # {}
    /\ \E i \in DOMAIN memories \ RecalledIds :
          /\ memories[i].user_id = mem.user_id_param
          /\ ~IsNull(memories[i].category_id)
          /\ memories[i].expires_at = Some(now)
          /\ memories[i].access_count = 0
          /\ memories[i].importance_score >= mem.min_importance

\* --------------------------------------------- memories: below the floor
\* The floor of every recall of the re-scoring specification.
RescoreFloor == 30

\* C28: with every recall at the floor 0.30, a memory whose importance is
\* below the floor stays below it, keeps its access_count and its
\* last_accessed, and is returned by no recall, whatever recalls and
\* re-scoring passes follow.
C28_BelowFloorForever ==
    [][\A i \in DOMAIN memories \cap DOMAIN memories' :
          memories[i].importance_score < RescoreFloor =>
              /\ memories'[i].importance_score < RescoreFloor
              /\ memories'[i].access_count = memories[i].access_count
              /\ memories'[i].last_accessed = memories[i].last_accessed
              /\ mem'.op = "recall" =>
                    \A k \in DOMAIN mem'.rows : mem'.rows[k].memory_id # i]_vars

\* A recall has passed over a memory that recalls used to touch and that
\* re-scoring has since taken below the floor.
C28_Witness ==
    /\ mem.op = "recall"
    /\ mem.error = "none"
    /\ mem.min_importance = RescoreFloor
    /\ \E i \in DOMAIN memories \ RecalledIds :
          /\ memories[i].user_id = mem.user_id_param
          /\ memories[i].access_count > 0
          /\ memories[i].importance_score < RescoreFloor

\* ------------------------------------------ knowledge graph: walks
\* The relationships a walk may use: those with a type, a source and a
\* target.
Walkable ==
    {i \in DOMAIN kg_relationships :
        /\ ~IsNull(kg_relationships[i].relationship_type_id)
        /\ ~IsNull(kg_relationships[i].source_entity_id)
        /\ ~IsNull(kg_relationships[i].target_entity_id)}

\* The directed walks of length k from the root of the traversal in kg.
Walks(k) ==
    {w \in [1..k -> Walkable] :
        /\ kg_relationships[w[1]].source_entity_id = kg.entity_id_param
        /\ \A j \in 1..(k - 1) :
              kg_relationships[w[j]].target_entity_id
                  = kg_relationships[w[j + 1]].source_entity_id}

\* C29: a traversal with max depth D >= 1 and a limit that does not bind
\* returns, for every k in 1..D and every directed walk of length k from
\* the root over relationships that have a type, one row at depth k for
\* the walk's last relationship, and no other row: a relationship reached
\* at one depth by two walks is returned twice at that depth, and a
\* relationship without a type is neither returned nor walked through.
C29_RowPerWalk ==
    (Traversed /\ kg.max_depth >= 1 /\ Val(kg.limit) = NonBinding) =>
        /\ {r.path : r \in ReturnedRows} = UNION {Walks(k) : k \in 1..kg.max_depth}
        /\ Len(kg.rows) = Cardinality(UNION {Walks(k) : k \in 1..kg.max_depth})
        /\ \A r \in ReturnedRows :
              LET last == kg_relationships[r.path[Len(r.path)]] IN
              /\ r.depth = Len(r.path)
              /\ r.rel_type = Val(last.relationship_type_id)
              /\ r.confidence_score = last.confidence_score
              /\ r.source_name = kg_entities[Val(last.source_entity_id)].name
              /\ r.target_name = kg_entities[Val(last.target_entity_id)].name

\* A traversal has returned one relationship twice at depth 2, reached
\* over two relationships that leave the root.
C29_Witness ==
    /\ Traversed
    /\ kg.max_depth >= 2
    /\ Val(kg.limit) = NonBinding
    /\ \E j, k \in DOMAIN kg.rows :
          /\ j # k
          /\ kg.rows[j].depth = 2
          /\ kg.rows[j].path # kg.rows[k].path
          /\ [kg.rows[j] EXCEPT !.path = << >>] = [kg.rows[k] EXCEPT !.path = << >>]

\* ------------------------------------------ knowledge graph: undated facts
\* The facts a timeline call returned.
TimelineReturned == {kg.rows[k].fact : k \in DOMAIN kg.rows}

\* C30: the timeline returns a fact without a fact_date only when it is
\* given neither bound, and then after every dated fact; given either
\* bound it returns no undated fact; and two facts of one entity and one
\* fact_date are returned or left out together, whatever their valid_from
\* and valid_until.
C30_UndatedFacts ==
    TimelineCalled =>
        /\ \A k \in DOMAIN kg.rows : IsNull(kg.rows[k].fact_date) =>
              /\ IsNull(kg.start_date) /\ IsNull(kg.end_date)
              /\ \A j \in DOMAIN kg.rows : ~IsNull(kg.rows[j].fact_date) => j < k
        /\ \A i, j \in DOMAIN kg_entity_facts :
              (/\ kg_entity_facts[i].entity_id = kg_entity_facts[j].entity_id
               /\ kg_entity_facts[i].fact_date = kg_entity_facts[j].fact_date)
              => (i \in TimelineReturned <=> j \in TimelineReturned)

\* A timeline given a start has returned a dated fact and left out an
\* undated fact of its entity, one of the two with a validity window that
\* does not hold the start, the other without.
C30_Witness ==
    /\ TimelineCalled
    /\ ~IsNull(kg.start_date)
    /\ \E i \in TimelineReturned :
       \E j \in DOMAIN kg_entity_facts \ TimelineReturned :
          /\ kg_entity_facts[j].entity_id = kg.entity_id_param
          /\ IsNull(kg_entity_facts[j].fact_date)
          /\ kg_entity_facts[i].valid_from # kg_entity_facts[j].valid_from

\* ------------------------------------------- lexical index maintenance

\* Bound of the index specification: the rows of each chunk table.
MaxChunks == 1

\* A text is a sequence of words, and NULL is Null.  The chunk contents and
\* the code example summaries the specification writes.
Contents == {Null, Some(<<"cats">>), Some(<<"the", "dog">>)}
Summaries == {Null, Some(<<"dogs">>)}

\* The english configuration drops stop words and stems the others.
StopWords == {"the"}

Stem(word) ==
    CASE word = "cats" -> "cat"
      [] word = "dogs" -> "dog"
      [] OTHER -> word

\* to_tsvector('english', text): the lexemes of the text, each with the
\* positions of its words; a stop word keeps its position.  The function is
\* strict: NULL for a NULL text.
ToTsvector(text) ==
    IF IsNull(text) THEN Null
    ELSE LET words == Val(text)
             kept == {k \in DOMAIN words : words[k] \notin StopWords}
         IN  Some([lexeme \in {Stem(words[k]) : k \in kept} |->
                      {k \in kept : Stem(words[k]) = lexeme}])

\* COALESCE(text, '').
Coalesce(text) == IF IsNull(text) THEN << >> ELSE Val(text)

\* The trigger function of archon_crawled_pages.
archon_crawled_pages_tsvector_update(new) ==
    [new EXCEPT !.content_search_vector =
        ToTsvector(Some(Coalesce(new.content)))]

\* The trigger function of archon_code_examples: content, a space, summary.
archon_code_examples_tsvector_update(new) ==
    [new EXCEPT !.content_search_vector =
        ToTsvector(Some(Coalesce(new.content) \o Coalesce(new.summary)))]

\* BEFORE INSERT OR UPDATE OF content [, summary]: the row as the statement
\* stores it, through the table's trigger when the trigger exists.
BeforeRow(table, new) ==
    IF table \notin triggers THEN new
    ELSE IF table = "archon_crawled_pages"
         THEN archon_crawled_pages_tsvector_update(new)
         ELSE archon_code_examples_tsvector_update(new)

\* The rows the running backfill has updated stay locked until it ends.
BackfillRunning == backfill.pc \in {"update", "exit_when"}

\* INSERT INTO archon_crawled_pages: the index column has no default.
InsertPageContent(content) ==
    /\ Len(archon_crawled_pages) < MaxChunks
    /\ archon_crawled_pages' = Append(archon_crawled_pages,
           BeforeRow("archon_crawled_pages",
                     [content |-> content, content_search_vector |-> Null]))
    /\ UNCHANGED <<archon_code_examples, triggers, backfill, nonIxVars>>

\* UPDATE archon_crawled_pages SET content = ... of one row.
UpdatePageContent(i, content) ==
    /\ i \in DOMAIN archon_crawled_pages
    /\ ~(BackfillRunning /\ i \in backfill.updated)
    /\ archon_crawled_pages[i].content # content
    /\ archon_crawled_pages' = [archon_crawled_pages EXCEPT ![i] =
           BeforeRow("archon_crawled_pages", [@ EXCEPT !.content = content])]
    /\ UNCHANGED <<archon_code_examples, triggers, backfill, nonIxVars>>

\* INSERT INTO archon_code_examples.
InsertExampleContent(content, summary) ==
    /\ Len(archon_code_examples) < MaxChunks
    /\ archon_code_examples' = Append(archon_code_examples,
           BeforeRow("archon_code_examples",
                     [content |-> content, summary |-> summary,
                      content_search_vector |-> Null]))
    /\ UNCHANGED <<archon_crawled_pages, triggers, backfill, nonIxVars>>

\* UPDATE archon_code_examples SET content = ..., summary = ... of one row.
UpdateExampleContent(i, content, summary) ==
    /\ i \in DOMAIN archon_code_examples
    /\ <<archon_code_examples[i].content, archon_code_examples[i].summary>>
           # <<content, summary>>
    /\ archon_code_examples' = [archon_code_examples EXCEPT ![i] =
           BeforeRow("archon_code_examples",
                     [@ EXCEPT !.content = content, !.summary = summary])]
    /\ UNCHANGED <<archon_crawled_pages, triggers, backfill, nonIxVars>>

\* The script that creates the two trigger functions and the two triggers.
\* CREATE TRIGGER locks the table against writers, so it waits for a
\* running backfill to end.
CreateTriggers ==
    /\ triggers = {}
    /\ ~BackfillRunning
    /\ triggers' = {"archon_crawled_pages", "archon_code_examples"}
    /\ UNCHANGED <<archon_crawled_pages, archon_code_examples, backfill,
                   nonIxVars>>

\* LIMIT 500 of the backfill's batch, scaled to the rows of the model.
BatchLimit == 1

\* The rows the batch may select: the index column is NULL.
Unindexed == {i \in DOMAIN archon_crawled_pages :
                 IsNull(archon_crawled_pages[i].content_search_vector)}

\* The DO block starts; the column exists as the script added it.  The
\* record keeps, for the properties, the triggers that existed and the
\* number of rows the table had at that moment.
BackfillStart ==
    /\ ~BackfillRunning
    /\ backfill' = [pc |-> "update", v_rows |-> 0, updated |-> {},
                    triggers |-> triggers,
                    present |-> Len(archon_crawled_pages)]
    /\ UNCHANGED <<archon_crawled_pages, archon_code_examples, triggers,
                   nonIxVars>>

\* One turn of the loop: the batch, the UPDATE of its rows and GET
\* DIAGNOSTICS.  The UPDATE sets the index column alone, so the trigger,
\* which is OF content, does not fire, and to_tsvector reads content as is.
BackfillBatch ==
    /\ backfill.pc = "update"
    /\ \E batch \in SUBSET Unindexed :
          /\ Cardinality(batch) = Min2(BatchLimit, Cardinality(Unindexed))
          /\ archon_crawled_pages' =
                 [i \in DOMAIN archon_crawled_pages |->
                     IF i \in batch
                     THEN [archon_crawled_pages[i] EXCEPT
                              !.content_search_vector =
                                  ToTsvector(archon_crawled_pages[i].content)]
                     ELSE archon_crawled_pages[i]]
          /\ backfill' = [backfill EXCEPT !.pc = "exit_when",
                                         !.v_rows = Cardinality(batch),
                                         !.updated = @ \cup batch]
    /\ UNCHANGED <<archon_code_examples, triggers, nonIxVars>>

\* EXIT WHEN v_rows = 0; the block ends and its transaction commits.
BackfillExitWhen ==
    /\ backfill.pc = "exit_when"
    /\ backfill' = IF backfill.v_rows = 0
                   THEN [backfill EXCEPT !.pc = "done", !.updated = {}]
                   ELSE [backfill EXCEPT !.pc = "update"]
    /\ UNCHANGED <<archon_crawled_pages, archon_code_examples, triggers,
                   nonIxVars>>

IndexInit ==
    /\ SearchIdle
    /\ MemIdle
    /\ variable_conflict = "error"
    /\ KgIdle
    /\ TxIdle
    /\ IxIdle

IndexNext ==
    \/ \E content \in Contents : InsertPageContent(content)
    \/ \E i \in 1..MaxChunks, content \in Contents : UpdatePageContent(i, content)
    \/ \E content \in Contents, summary \in Summaries :
          InsertExampleContent(content, summary)
    \/ \E i \in 1..MaxChunks, content \in Contents, summary \in Summaries :
          UpdateExampleContent(i, content, summary)
    \/ CreateTriggers
    \/ BackfillStart
    \/ BackfillBatch
    \/ BackfillExitWhen

\* The DO block runs in one session that keeps executing its statements.
SpecIndex ==
    /\ IndexInit
    /\ [][IndexNext]_vars
    /\ WF_vars(BackfillBatch)
    /\ WF_vars(BackfillExitWhen)

\* ------------------------------------------- lexical index: properties

\* The index the triggers derive from a row's current content.
DerivedPageIndex(row) == ToTsvector(Some(Coalesce(row.content)))
DerivedExampleIndex(row) ==
    ToTsvector(Some(Coalesce(row.content) \o Coalesce(row.summary)))

\* C21: once the triggers exist and a backfill that started after them has
\* run to its end, every crawled page and every code example has the index
\* derived from its current content (content and summary for a code
\* example): none has an index of an older content, none has no index.
C21_IndexDerived ==
    (backfill.pc = "done" /\ backfill.triggers # {} /\ triggers # {}) =>
        /\ \A i \in DOMAIN archon_crawled_pages :
              archon_crawled_pages[i].content_search_vector =
                  DerivedPageIndex(archon_crawled_pages[i])
        /\ \A i \in DOMAIN archon_code_examples :
              archon_code_examples[i].content_search_vector =
                  DerivedExampleIndex(archon_code_examples[i])

\* C26: a backfill that has started reaches its end, whatever the table
\* holds, and at its end every crawled page that was in the table when it
\* started has an index.
C26_BackfillTerminates ==
    /\ BackfillRunning ~> (backfill.pc = "done")
    /\ [](backfill.pc = "done" =>
             \A i \in 1..backfill.present :
                 ~IsNull(archon_crawled_pages[i].content_search_vector))

====
